---- MODULE Spec2Model ----
(***************************************************************************)
(* State-machine model of theoldswitcheroo: the SSH ControlMaster manager  *)
(* (ssh-manager.ts), the portal daemon (daemon/daemon.ts), the controller's*)
(* daemon-output router (TaskSpaceCommunicationManager) and the taskspace  *)
(* lifecycle controller (SwitcherooApp / TaskSpace).                       *)
(*                                                                         *)
(* Each subsystem has its own specification (SpecSSH, SpecDaemon,          *)
(* SpecRouter, SpecApp); SpecAppCold is one run of the controller with two *)
(* ports and SpecBus one run with the bus events attached.  SpecStart is   *)
(* the controller's startDaemon with the handoff between controllers,      *)
(* SpecRelay (SpecRelayFair with the daemon's event loop fair) the daemon  *)
(* with its stdin, signals and controller, SpecCli the command-line        *)
(* client, SpecMcp the tool-protocol server and SpecExec executeCommand of *)
(* the SSH manager.  SpecChannel is the SSH manager with its tunnels and    *)
(* shutdown, SpecFile the rewriting of the roster file, SpecProbe          *)
(* waitForServer, SpecInstall installVSCodeServer, SpecRestore the restore *)
(* of saved taskspaces with probes that can fail, SpecExt the extension    *)
(* manifest over a restart, SpecTable the controller's table of daemon     *)
(* children and SpecVs the calls of startVSCodeServer for one taskspace.   *)
(* A specification holds the variables of the other subsystems at their    *)
(* initial values.                                                         *)
(***************************************************************************)
EXTENDS Integers, Sequences, FiniteSets, TLC

VARIABLES
  \* ---- ssh-manager.ts
  masters,      \* SSHConnectionManager.masters: host -> index into mprocs (0 = no entry)
  mprocs,       \* every `ssh -M` control process spawned so far
  mcalls,       \* every ensureMaster call made so far
  \* ---- daemon/daemon.ts
  sockFile,     \* the file at socketPath: 0 = absent, d = the socket bound by daemon d
  dstate,       \* daemon process -> "none" (not launched) | "spawned" | "listening" | "exited"
  dclients,     \* PortalDaemon.clients of each daemon
  conn,         \* client connection -> [st, d, stream, inflight]
  dstdout,      \* what each daemon wrote on its stdout, write by write
  \* ---- TaskSpaceCommunicationManager (taskspace-communication-manager.ts)
  rsent,        \* the lines the daemon child wrote on its stdout so far
  rin,          \* bytes of them not yet handed to the stdout 'data' handler
  rout,         \* what the router did, in order: [line, how]
  \* ---- SwitcherooApp / TaskSpace (main.ts of the taskspace controller)
  taskspaces,   \* SwitcherooApp.taskspaces: sequence of [uuid, name, port, view, loaded]
  activeUuid,   \* SwitcherooApp.activeTaskSpaceUuid (0 = null)
  mainView,     \* SwitcherooApp.mainView: <<kind, uuid>>
  ops,          \* the async operations in flight: 0 = bootUp, 1.. = IPC requests
  bootSaved,    \* what bootUp loaded from the roster file, while it restores it
  notified,     \* the last 'update-taskspaces' message posted to the sidebar
  disk,         \* the roster file taskspaces.json
  cloneDirs,    \* uuids whose clone directory exists on the remote host
  servers,      \* editor-server processes launched on the remote host
  tunnels,      \* local ports with a live ssh -L forward
  run,          \* how many times the controller has been started
  \* ---- the bus events the router hands to SwitcherooApp
  dispatched,   \* the last event record dispatched: [n, type, uuid, name]
  dstdin,       \* what sendMessage wrote on the daemon child's stdin
  \* ---- TaskSpaceCommunicationManager.startDaemon, one manager per controller
  dcalls,           \* the startDaemon calls: call -> [ctl, pc, pid]
  daemonProcesses,  \* controller -> the daemon child its daemonProcesses holds for the host (0 = none)
  downer,           \* daemon -> the controller that spawned it (0 = not spawned by a controller)
  sigterm,          \* daemons a SIGINT or SIGTERM was sent to
  \* ---- daemon/daemon.ts: the controller's side of the daemon
  dstdio,       \* daemon -> "open" | "closed": the controller's end of its stdin and stdout
  dstdinLog,    \* daemon -> the lines it read on stdin, in order
  cwrites,      \* client connection -> the client.write calls the daemon made on it
  \* ---- the CLI (cli-tool.ts): one process per client connection
  cli,          \* client -> [st, cmd, cwd, code, err]: the CLI process that uses the connection
  \* ---- TaskSpaceMCPServer (the tool-protocol endpoint)
  mcp,          \* [st, cwd, taskspaceUuid]: the server process
  mcpTools,     \* the tools of the answer to the last ListTools request
  mcpResults,   \* the answers to the CallTool requests, in order: [tool, isError]
  mcpSent,      \* the messages sendMessage wrote to the daemon's socket, in order
  \* ---- ssh-manager.ts: executeCommand
  \* ---- ssh-manager.ts: createTunnel, cleanup at process end
  mtunnels,     \* the createTunnel calls so far: [host, how, proc, live]
  mclean,       \* "no", or how cleanup() was invoked: "signal" | "exit"
  \* ---- the roster file taskspaces.json, byte by byte
  rfile,        \* [exists, text, mem, pc, prev, next, partial, crashes]
  \* ---- waitForServer (part_004 1100-1132)
  probe,        \* one call: [pc, retries, log, delays, result]
  \* ---- installVSCodeServer (part_004 1075-1092): the remote directory
  inst,         \* [archive, unpacked, dir, runs, downloads, unpacks, exit, failed]
  \* ---- a taskspace's extension manifest through save and restore
  ext,          \* [pc, mem, datum, first, again]
  \* ---- the controller's daemon children (main.ts 1046-1095)
  dchild,       \* ssh child of daemon d: "live" | "killed" | "exited" | "reaped"
  \* ---- the calls of startVSCodeServer (part_004 737-835)
  vstart,       \* call k: promise, actualPort, timer, server process, history
  tsport,       \* taskspace.port as ensureVSCodeServer assigns it
  xcalls        \* the executeCommand calls: [pc, host, command, call, spawned, stdout, stderr, code, lost, result]

sshVars == <<masters, mprocs, mcalls>>
dVars == <<sockFile, dstate, dclients, conn, dstdout>>
rVars == <<rsent, rin, rout>>
aVars == <<taskspaces, activeUuid, mainView, ops, bootSaved, notified, disk,
           cloneDirs, servers, tunnels, run>>
bVars == <<dispatched, dstdin>>
hVars == <<dcalls, daemonProcesses, downer, sigterm>>
cVars == <<dstdio, dstdinLog, cwrites>>
kVars == <<cli>>
mVars == <<mcp, mcpTools, mcpResults, mcpSent>>
xVars == <<xcalls>>
tVars == <<mtunnels, mclean>>
fVars == <<rfile>>
pVars == <<probe>>
iVars == <<inst>>
eVars == <<ext>>
gVars == <<dchild>>
vVars == <<vstart, tsport>>

vars == <<masters, mprocs, mcalls, sockFile, dstate, dclients, conn, dstdout,
          rsent, rin, rout, taskspaces, activeUuid, mainView, ops, bootSaved,
          notified, disk, cloneDirs, servers, tunnels, run, dispatched, dstdin,
          dcalls, daemonProcesses, downer, sigterm, dstdio, dstdinLog, cwrites, cli,
          mcp, mcpTools, mcpResults, mcpSent, xcalls, mtunnels, mclean, rfile, probe, inst, ext, dchild, vstart, tsport>>

\* What a step of one subsystem leaves alone.
NotSSH == UNCHANGED <<dVars, rVars, aVars, bVars, hVars, cVars, kVars, mVars, xVars, tVars, fVars, pVars, iVars, eVars, gVars, vVars>>
NotDaemon == UNCHANGED <<sshVars, rVars, aVars, bVars, hVars, cVars, kVars, mVars, xVars, tVars, fVars, pVars, iVars, eVars, gVars, vVars>>
NotRouter == UNCHANGED <<sshVars, dVars, aVars, bVars, hVars, cVars, kVars, mVars, xVars, tVars, fVars, pVars, iVars, eVars, gVars, vVars>>
NotApp == UNCHANGED <<sshVars, dVars, rVars, bVars, hVars, cVars, kVars, mVars, xVars, tVars, fVars, pVars, iVars, eVars, gVars, vVars>>
NotBus == UNCHANGED <<sshVars, dVars, rVars, hVars, cVars, kVars, mVars, xVars, tVars, fVars, pVars, iVars, eVars, gVars, vVars>>
NotStart == UNCHANGED <<sshVars, rVars, aVars, bVars, cVars, kVars, mVars, xVars, tVars, fVars, pVars, iVars, eVars, gVars, vVars>>

(***************************************************************************)
(* Bounds                                                                  *)
(***************************************************************************)
MaxCalls == 3          \* ensureMaster calls in one behaviour

Hosts == {"h1", "h2"}

(***************************************************************************)
(* SSHConnectionManager (ssh-manager.ts)                                   *)
(*                                                                         *)
(* A control process is [host, st, killed]:                                *)
(*   st = "alive"     the child is running                                 *)
(*   st = "spawnerr"  spawn failed, its 'error' event is still to come     *)
(*   st = "failed"    spawn failed, 'error' delivered                      *)
(*   st = "exited"    the child has exited, 'close' delivered              *)
(*   killed          ChildProcess.killed: true only after process.kill()   *)
(* A call is [host, proc, pc, result]: pc = "grace" while its 1000 ms      *)
(* timer is pending; result is how its promise settled ("pending" = not    *)
(* settled).                                                               *)
(***************************************************************************)
InitSSHVars ==
  /\ masters = [h \in Hosts |-> 0]
  /\ mprocs = <<>>
  /\ mcalls = <<>>

\* masters.has(host)
MastersHas(h) == masters[h] # 0

\* A promise settles once: resolve/reject after the first have no effect.
Settle(result, how) == IF result = "pending" THEN how ELSE result

\* ensureMaster(host), up to the return of the promise (lines 25-46):
\* an existing entry returns its socket path at once; otherwise ssh -M is
\* spawned and the grace timer armed.  `ok` is whether the spawn worked.
ensureMaster(h, ok) ==
  /\ Len(mcalls) < MaxCalls
  /\ IF MastersHas(h)
       THEN /\ ok
            /\ mcalls' = Append(mcalls, [host |-> h, proc |-> masters[h],
                                         pc |-> "done", result |-> "ok"])
            /\ UNCHANGED <<masters, mprocs>>
       ELSE /\ mprocs' = Append(mprocs, [host |-> h,
                                         st |-> IF ok THEN "alive" ELSE "spawnerr",
                                         killed |-> FALSE])
            /\ mcalls' = Append(mcalls, [host |-> h, proc |-> Len(mprocs) + 1,
                                         pc |-> "grace", result |-> "pending"])
            /\ UNCHANGED masters

\* ensureMaster called by itself
EnsureMaster(h, ok) ==
  /\ NotSSH
  /\ ensureMaster(h, ok)

\* The setTimeout callback of ensureMaster (lines 49-60).  A failed spawn
\* emits 'error' on the next tick, long before the 1000 ms timer.
GraceTimer(c) ==
  /\ NotSSH
  /\ c \in DOMAIN mcalls
  /\ mcalls[c].pc = "grace"
  /\ mprocs[mcalls[c].proc].st # "spawnerr"
  /\ IF ~mprocs[mcalls[c].proc].killed
       THEN /\ masters' = [masters EXCEPT ![mcalls[c].host] = mcalls[c].proc]
            /\ mcalls' = [mcalls EXCEPT ![c].pc = "done",
                                        ![c].result = Settle(@, "ok")]
       ELSE /\ mcalls' = [mcalls EXCEPT ![c].pc = "done"]
            /\ UNCHANGED masters
  /\ UNCHANGED mprocs

\* masterProcess.on('error') (lines 62-65): the spawn failed; reject.
MasterError(c) ==
  /\ NotSSH
  /\ c \in DOMAIN mcalls
  /\ mcalls[c].proc \in DOMAIN mprocs
  /\ mprocs[mcalls[c].proc].st = "spawnerr"
  /\ \A d \in DOMAIN mcalls : d < c => mcalls[d].proc # mcalls[c].proc
  /\ mprocs' = [mprocs EXCEPT ![mcalls[c].proc].st = "failed"]
  /\ mcalls' = [mcalls EXCEPT ![c].result = Settle(@, "err")]
  /\ UNCHANGED masters

\* The control process p exits (connection refused, transport lost, or the
\* signal sent by cleanup); masterProcess.on('close') (lines 67-70) deletes
\* the entry of p's host, whichever process that entry names.
MasterClose(p) ==
  /\ NotSSH
  /\ p \in DOMAIN mprocs
  /\ mprocs[p].st = "alive"
  /\ mprocs' = [mprocs EXCEPT ![p].st = "exited"]
  /\ masters' = [masters EXCEPT ![mprocs[p].host] = 0]
  /\ UNCHANGED mcalls

\* cleanup() (lines 201-212): kill() every registered master that was not
\* killed before, then clear the map.
cleanup ==
  /\ mprocs' = [p \in DOMAIN mprocs |->
                  IF \E h \in Hosts : masters[h] = p
                    THEN [mprocs[p] EXCEPT !.killed = TRUE]
                    ELSE mprocs[p]]
  /\ masters' = [h \in Hosts |-> 0]
  /\ UNCHANGED mcalls

\* cleanup() called while some master is registered
Cleanup ==
  /\ NotSSH
  /\ \E h \in Hosts : MastersHas(h)
  /\ cleanup

NextSSH ==
  \/ \E h \in Hosts, ok \in BOOLEAN : EnsureMaster(h, ok)
  \/ \E c \in 1..MaxCalls : GraceTimer(c)
  \/ \E c \in 1..MaxCalls : MasterError(c)
  \/ \E p \in 1..MaxCalls : MasterClose(p)
  \/ Cleanup

\* Control processes of host h that are running.
LiveMasters(h) == {p \in DOMAIN mprocs : mprocs[p].host = h /\ mprocs[p].st = "alive"}

\* Hosts ensureMaster was asked for.
RequestedHosts == {mcalls[c].host : c \in DOMAIN mcalls}

(***************************************************************************)
(* PortalDaemon (daemon/daemon.ts)                                         *)
(*                                                                         *)
(* Bytes are one-character strings; NL is the newline.  A client           *)
(* connection is [st, d, stream, inflight]: st = "idle" | "open" |         *)
(* "closed", d the daemon it reached, stream everything the client wrote,  *)
(* inflight the bytes written and not yet handed to the daemon in a 'data' *)
(* event.  dstdout holds the process.stdout.write calls, each [c, bytes]   *)
(* with c the client whose message it forwards; the console.log lines the  *)
(* daemon prints between them reach the controller as log lines and are    *)
(* part of the router's input below.                                       *)
(***************************************************************************)
MaxDaemons == 2
MaxClients == 2

Daemons == 1..MaxDaemons
Clients == 1..MaxClients

NL == "\n"
Whitespace == {NL, " "}

\* What a client writes before it ends its side: newline-terminated event
\* records, or (the CLI, cli-tool.ts) one record without a newline.
ClientStreams ==
  { <<"a", "b", NL>>, <<"a", NL, "b", NL>>, <<"a", "b">> }

InitDVars ==
  /\ sockFile = 0
  /\ dstate = [d \in Daemons |-> "none"]
  /\ dclients = [d \in Daemons |-> {}]
  /\ conn = [c \in Clients |-> [st |-> "idle", d |-> 0, stream |-> <<>>, inflight |-> <<>>]]
  /\ dstdout = [d \in Daemons |-> <<>>]

\* String.prototype.trim
RECURSIVE TrimLeft(_)
TrimLeft(s) ==
  IF s = <<>> THEN s
  ELSE IF Head(s) \in Whitespace THEN TrimLeft(Tail(s)) ELSE s

RECURSIVE TrimRight(_)
TrimRight(s) ==
  IF s = <<>> THEN s
  ELSE IF s[Len(s)] \in Whitespace THEN TrimRight(SubSeq(s, 1, Len(s) - 1)) ELSE s

Trim(s) == TrimRight(TrimLeft(s))

\* String.prototype.split('\n'): the segments between newlines (always at
\* least one segment, the last one being what follows the last newline).
RECURSIVE SplitNL(_)
SplitNL(s) ==
  IF \A i \in DOMAIN s : s[i] # NL THEN <<s>>
  ELSE LET i == CHOOSE j \in DOMAIN s : s[j] = NL /\ \A k \in 1..(j - 1) : s[k] # NL
       IN  <<SubSeq(s, 1, i - 1)>> \o SplitNL(SubSeq(s, i + 1, Len(s)))

\* The newline-terminated lines of a byte stream.
CompleteLines(s) == SubSeq(SplitNL(s), 1, Len(SplitNL(s)) - 1)

\* start() (lines 103-124), reached from main(): an existing file at the
\* socket path is unlinked, then the server listens on the path, which
\* binds a new socket file there.
DaemonStart(d) ==
  /\ NotDaemon
  /\ dstate[d] = "none"
  /\ sockFile' = d
  /\ dstate' = [dstate EXCEPT ![d] = "listening"]
  /\ UNCHANGED <<dclients, conn, dstdout>>

\* A client (cli-tool.ts sendMessage, lines 32-49) finds the socket file,
\* connects to the daemon that bound it, writes its stream and ends its
\* side; handleClient (lines 31-33) adds the socket to clients.
ClientConnect(c, s) ==
  /\ NotDaemon
  /\ conn[c].st = "idle"
  /\ sockFile # 0
  /\ dstate[sockFile] = "listening"
  /\ conn' = [conn EXCEPT ![c] = [st |-> "open", d |-> sockFile, stream |-> s, inflight |-> s]]
  /\ dclients' = [dclients EXCEPT ![sockFile] = @ \cup {c}]
  /\ UNCHANGED <<sockFile, dstate, dstdout>>

\* socket.on('data') (lines 35-46): the next k bytes of the connection
\* arrive as one Buffer; it is trimmed and, when not empty, written to
\* stdout followed by a newline, then logged. When the controller's end of
\* stdout is closed the write fails with EPIPE: process.stdout emits 'error',
\* which nothing listens to, and the process ends through its 'exit'
\* handler, cleanup (lines 79-96, 100).
DaemonData(c) ==
  /\ NotDaemon
  /\ conn[c].st = "open"
  /\ \E k \in 1..Len(conn[c].inflight) :
       LET data == SubSeq(conn[c].inflight, 1, k)
           message == Trim(data)
           d == conn[c].d
       IN  IF message # <<>> /\ dstdio[d] = "closed"
           THEN /\ conn' = [e \in Clients |->
                             IF e \in dclients[d] THEN [conn[e] EXCEPT !.st = "closed"] ELSE conn[e]]
                /\ sockFile' = 0
                /\ dstate' = [dstate EXCEPT ![d] = "exited"]
                /\ UNCHANGED <<dclients, dstdout>>
           ELSE /\ conn' = [conn EXCEPT ![c].inflight = SubSeq(@, k + 1, Len(@))]
                /\ dstdout' = IF message # <<>>
                                 THEN [dstdout EXCEPT ![d] =
                                         Append(@, [c |-> c, bytes |-> message \o <<NL>>])]
                                 ELSE dstdout
                /\ UNCHANGED <<sockFile, dstate, dclients>>

\* socket.on('close') (lines 48-51) once the client's bytes are consumed
\* and its end has arrived.
DaemonClientClose(c) ==
  /\ NotDaemon
  /\ conn[c].st = "open"
  /\ conn[c].inflight = <<>>
  /\ conn' = [conn EXCEPT ![c].st = "closed"]
  /\ dclients' = [dclients EXCEPT ![conn[c].d] = @ \ {c}]
  /\ UNCHANGED <<sockFile, dstate, dstdout>>

\* a cleanup that leaves the socket file where it is
C24_Mutant_DaemonSignal(d) ==
  /\ NotDaemon
  /\ dstate[d] = "listening"
  /\ conn' = [c \in Clients |->
               IF c \in dclients[d] THEN [conn[c] EXCEPT !.st = "closed"] ELSE conn[c]]
  /\ dstate' = [dstate EXCEPT ![d] = "exited"]
  /\ UNCHANGED <<sockFile, dclients, dstdout>>

\* cleanup (lines 79-96) on SIGINT or SIGTERM: end every client, close the
\* server, unlink whatever file is at the socket path, exit.
DaemonSignal(d) ==
  /\ NotDaemon
  /\ dstate[d] = "listening"
  /\ conn' = [c \in Clients |->
               IF c \in dclients[d] THEN [conn[c] EXCEPT !.st = "closed"] ELSE conn[c]]
  /\ sockFile' = 0
  /\ dstate' = [dstate EXCEPT ![d] = "exited"]
  /\ UNCHANGED <<dclients, dstdout>>

\* The daemon is killed outright (SIGKILL, host crash): no handler runs,
\* the socket file stays behind.
DaemonKilled(d) ==
  /\ NotDaemon
  /\ dstate[d] = "listening"
  /\ conn' = [c \in Clients |->
               IF c \in dclients[d] THEN [conn[c] EXCEPT !.st = "closed"] ELSE conn[c]]
  /\ dstate' = [dstate EXCEPT ![d] = "exited"]
  /\ UNCHANGED <<sockFile, dclients, dstdout>>

\* Another party (a controller taking over) deletes the socket file.
SocketDeleted ==
  /\ NotDaemon
  /\ sockFile # 0
  /\ sockFile' = 0
  /\ UNCHANGED <<dstate, dclients, conn, dstdout>>

\* The steps the daemon's event loop takes by itself once input is there.
DaemonLoop ==
  \/ \E c \in Clients : DaemonData(c)
  \/ \E c \in Clients : DaemonClientClose(c)

NextDaemon ==
  \/ \E d \in Daemons : DaemonStart(d)
  \/ \E c \in Clients, s \in ClientStreams : ClientConnect(c, s)
  \/ \E c \in Clients : DaemonData(c)
  \/ \E c \in Clients : DaemonClientClose(c)
  \/ \E d \in Daemons : DaemonSignal(d)
  \/ \E d \in Daemons : DaemonKilled(d)
  \/ SocketDeleted

\* The lines daemon d forwarded for client c, in the order written.
RECURSIVE FwdLinesOf(_, _)
FwdLinesOf(out, c) ==
  IF out = <<>> THEN <<>>
  ELSE (IF Head(out).c = c
          THEN CompleteLines(Head(out).bytes) ELSE <<>>)
       \o FwdLinesOf(Tail(out), c)

FwdLines(c) == FwdLinesOf(dstdout[conn[c].d], c)

(***************************************************************************)
(* TaskSpaceCommunicationManager.startDaemon (src/electron-app/src/main.ts,*)
(* lines 1012-1086) on one host. Every controller has its own manager and  *)
(* its own daemonProcesses map; a call is an async function and an action  *)
(* is one run of it from one await to the next.                            *)
(***************************************************************************)
MaxControllers == 2   \* controllers that use the host
MaxStartCalls == 2    \* startDaemon calls in one behaviour

Controllers == 1..MaxControllers
StartCalls == 1..MaxStartCalls

NoCall == [ctl |-> 0, pc |-> "idle", pid |-> 0]

InitHVars ==
  /\ dcalls = [k \in StartCalls |-> NoCall]
  /\ daemonProcesses = [ctl \in Controllers |-> 0]
  /\ downer = [d \in Daemons |-> 0]
  /\ sigterm = {}

\* startDaemon up to its first await (lines 1013-1026): the call returns at
\* once when daemonProcesses has the host, else it runs the `test -f` check
\* of the daemon files. Called by bootUp and by the start-daemon request.
StartDaemonCalled(k, ctl) ==
  /\ NotStart
  /\ dcalls[k].pc = "idle"
  /\ dcalls' = [dcalls EXCEPT ![k] =
                  [ctl |-> ctl, pid |-> 0,
                   pc |-> IF daemonProcesses[ctl] # 0 THEN "returned" ELSE "files"]]
  /\ UNCHANGED <<dVars, daemonProcesses, downer, sigterm>>

\* spawn('ssh', [... daemonCommand]) and daemonProcesses.set (lines 1046-1079),
\* run without an await in between: the remote node process is launched and
\* has not reached start() yet.
SpawnDaemon(k) ==
  \E d \in Daemons :
    /\ dstate[d] = "none"
    /\ \A e \in Daemons : dstate[e] = "none" => d <= e
    /\ dstate' = [dstate EXCEPT ![d] = "spawned"]
    /\ downer' = [downer EXCEPT ![d] = dcalls[k].ctl]
    /\ daemonProcesses' = [daemonProcesses EXCEPT ![dcalls[k].ctl] = d]
    /\ dcalls' = [dcalls EXCEPT ![k].pc = "started"]

\* the `test -f` result is back (lines 1026-1030) and the call awaits
\* checkExistingInstance; files missing, or the command fails: the call throws
FilesChecked(k, ok) ==
  /\ NotStart
  /\ dcalls[k].pc = "files"
  /\ dcalls' = [dcalls EXCEPT ![k].pc = IF ok THEN "instance" ELSE "failed"]
  /\ UNCHANGED <<dVars, daemonProcesses, downer, sigterm>>

\* what checkExistingInstance's command prints when it runs (lines 1103-1109):
\* the pid of the process that has the socket open when the socket file is
\* there, else nothing
InstancePid == IF sockFile # 0 /\ dstate[sockFile] = "listening" THEN sockFile ELSE 0

\* checkExistingInstance returned (lines 1033-1034): with an instance the call
\* awaits the handoff dialog, without one it spawns the daemon
InstanceChecked(k) ==
  /\ NotStart
  /\ dcalls[k].pc = "instance"
  /\ IF InstancePid # 0
     THEN /\ dcalls' = [dcalls EXCEPT ![k].pc = "dialog", ![k].pid = InstancePid]
          /\ UNCHANGED <<dstate, daemonProcesses, downer>>
     ELSE SpawnDaemon(k)
  /\ UNCHANGED <<sockFile, dclients, conn, dstdout, sigterm>>

\* showHandoffDialog returned (lines 1035-1041): Cancel makes the call throw,
\* Take Over makes it run `kill pid` on the host
DialogAnswered(k, takeOver) ==
  /\ NotStart
  /\ dcalls[k].pc = "dialog"
  /\ dcalls' = [dcalls EXCEPT ![k].pc = IF takeOver THEN "kill" ELSE "failed"]
  /\ UNCHANGED <<dVars, daemonProcesses, downer, sigterm>>

\* the `kill pid 2>/dev/null || true` command has run (line 1041): the
\* process got SIGTERM if it was still there; the call sleeps 1000 ms
KillSent(k) ==
  /\ NotStart
  /\ dcalls[k].pc = "kill"
  /\ sigterm' = IF dstate[dcalls[k].pid] = "listening"
                  THEN sigterm \cup {dcalls[k].pid} ELSE sigterm
  /\ dcalls' = [dcalls EXCEPT ![k].pc = "wait"]
  /\ UNCHANGED <<dVars, daemonProcesses, downer>>

\* the 1000 ms timer fired (line 1042) and the call spawns the daemon
WaitElapsed(k) ==
  /\ NotStart
  /\ dcalls[k].pc = "wait"
  /\ SpawnDaemon(k)
  /\ UNCHANGED <<sockFile, dclients, conn, dstdout, sigterm>>

\* main() and start() of a daemon a controller spawned (daemon.ts, lines
\* 103-124): as DaemonStart
DaemonBoots(d) ==
  /\ NotDaemon
  /\ dstate[d] = "spawned"
  /\ sockFile' = d
  /\ dstate' = [dstate EXCEPT ![d] = "listening"]
  /\ UNCHANGED <<dclients, conn, dstdout>>

\* the daemon's event loop takes up the SIGTERM of a `kill pid`: cleanup
SigtermHandled(d) ==
  /\ d \in sigterm
  /\ DaemonSignal(d)

NextStart ==
  \/ \E k \in StartCalls, ctl \in Controllers : StartDaemonCalled(k, ctl)
  \/ \E k \in StartCalls, ok \in BOOLEAN : FilesChecked(k, ok)
  \/ \E k \in StartCalls : InstanceChecked(k)
  \/ \E k \in StartCalls, takeOver \in BOOLEAN : DialogAnswered(k, takeOver)
  \/ \E k \in StartCalls : KillSent(k)
  \/ \E k \in StartCalls : WaitElapsed(k)
  \/ \E d \in Daemons : DaemonBoots(d)
  \/ \E d \in Daemons : SigtermHandled(d)

\* the daemon processes of a controller that are running
LiveDaemons(ctl) == {d \in Daemons : downer[d] = ctl /\ dstate[d] \in {"spawned", "listening"}}

(***************************************************************************)
(* C21: a controller never has more than one running bus-daemon child for  *)
(* the host, also when startDaemon is called again while an earlier call   *)
(* is still starting the daemon.                                           *)
(***************************************************************************)
C21_OneDaemonPerHost ==
  \A ctl \in Controllers : Cardinality(LiveDaemons(ctl)) <= 1

\* call k took the host over from the daemon of another controller
TookOver(k) ==
  /\ dcalls[k].pc = "started"
  /\ dcalls[k].pid # 0
  /\ downer[dcalls[k].pid] # dcalls[k].ctl

\* nothing is under way on the host: no call between two awaits, no daemon
\* between launch and listen, no SIGTERM waiting to be taken up
HandoffSettled ==
  /\ \A k \in StartCalls : dcalls[k].pc \in {"idle", "returned", "started", "failed"}
  /\ \A d \in Daemons : dstate[d] # "spawned"
  /\ \A d \in sigterm : dstate[d] = "exited"

(***************************************************************************)
(* C22: when controller B has taken the host over from controller A's      *)
(* daemon and everything has settled, A's daemon has exited, B's daemon is *)
(* the only daemon running and the socket file is the one B's daemon       *)
(* created.                                                                *)
(***************************************************************************)
C22_HandoffEndToEnd ==
  \A k \in StartCalls :
    (TookOver(k) /\ HandoffSettled) =>
      /\ dstate[dcalls[k].pid] = "exited"
      /\ {d \in Daemons : dstate[d] = "listening"} = {daemonProcesses[dcalls[k].ctl]}
      /\ sockFile = daemonProcesses[dcalls[k].ctl]

(***************************************************************************)
(* PortalDaemon, the controller's side: the lines read on stdin are        *)
(* broadcast to the connected clients (setupStdinHandling, lines 59-76).   *)
(* A line is an event record as sendMessage of the controller writes it.   *)
(***************************************************************************)
MaxStdinLines == 2    \* lines a daemon reads on stdin in one behaviour

\* JSON.stringify(message) of a status_response and of another record
StdinLines == {<<"{", "R", "}">>, <<"{", "Q", "}">>}

\* the relay is looked at for one daemon and its controller
RelayDaemons == {1}

\* what a client of the relay writes: one event record, as the CLI does
RelayStreams == {<<"a", "b">>}

InitCVars ==
  /\ dstdio = [d \in Daemons |-> "open"]
  /\ dstdinLog = [d \in Daemons |-> <<>>]
  /\ cwrites = [c \in Clients |-> <<>>]

NotRelay == UNCHANGED <<sshVars, rVars, aVars, bVars, kVars, mVars, xVars, tVars, fVars, pVars, iVars, eVars, gVars, vVars>>

\* stdinReader.on('line') (lines 61-75): the trimmed line, when not empty, is
\* written followed by a newline to every socket in clients
DaemonStdinLine(d, line) ==
  /\ NotRelay
  /\ dstate[d] = "listening"
  /\ dstdio[d] = "open"
  /\ Len(dstdinLog[d]) < MaxStdinLines
  /\ dstdinLog' = [dstdinLog EXCEPT ![d] = Append(@, line)]
  /\ LET message == Trim(line)
     IN cwrites' = [c \in Clients |->
                     IF message # <<>> /\ c \in dclients[d]
                       THEN Append(cwrites[c], message \o <<NL>>)
                       ELSE cwrites[c]]
  /\ UNCHANGED <<dVars, hVars, dstdio>>

\* an error handler that keeps the broken connection in clients
C25_Mutant_DaemonClientError(c) ==
  /\ NotRelay
  /\ conn[c].st = "open"
  /\ dstate[conn[c].d] = "listening"
  /\ conn' = [conn EXCEPT ![c].st = "closed", ![c].inflight = <<>>]
  /\ UNCHANGED <<sockFile, dstate, dclients, dstdout, hVars, cVars>>

\* socket.on('error') (lines 53-56), followed by 'close' (lines 48-51): the
\* connection of one client breaks; what it had in flight is lost
DaemonClientError(c) ==
  /\ NotRelay
  /\ conn[c].st = "open"
  /\ dstate[conn[c].d] = "listening"
  /\ conn' = [conn EXCEPT ![c].st = "closed", ![c].inflight = <<>>]
  /\ dclients' = [dclients EXCEPT ![conn[c].d] = @ \ {c}]
  /\ UNCHANGED <<sockFile, dstate, dstdout, hVars, cVars>>

\* The controller goes away: the daemon's stdin reaches end-of-file and the
\* read end of its stdout is closed. The readline interface emits 'close',
\* which nothing listens to (lines 59-76); the server keeps the process alive.
ControllerGone(d) ==
  /\ NotRelay
  /\ dstate[d] = "listening"
  /\ dstdio[d] = "open"
  /\ dstdio' = [dstdio EXCEPT ![d] = "closed"]
  /\ UNCHANGED <<dVars, hVars, dstdinLog, cwrites>>

\* SIGINT or SIGTERM is sent to a running daemon
SignalSent(d) ==
  /\ NotRelay
  /\ dstate[d] = "listening"
  /\ d \notin sigterm
  /\ sigterm' = sigterm \cup {d}
  /\ UNCHANGED <<dVars, cVars, dcalls, daemonProcesses, downer>>

\* What the daemon's event loop does by itself in the relay.
RelayLoop ==
  \/ \E c \in Clients : DaemonData(c)
  \/ \E c \in Clients : DaemonClientClose(c)
  \/ \E d \in RelayDaemons : SigtermHandled(d)

NextRelay ==
  \/ \E d \in RelayDaemons : DaemonStart(d)
  \/ \E c \in Clients, s \in RelayStreams : ClientConnect(c, s)
  \/ \E c \in Clients : DaemonData(c)
  \/ \E c \in Clients : DaemonClientClose(c)
  \/ \E c \in Clients : DaemonClientError(c)
  \/ \E d \in RelayDaemons, line \in StdinLines : DaemonStdinLine(d, line)
  \/ \E d \in RelayDaemons : ControllerGone(d)
  \/ \E d \in RelayDaemons : SignalSent(d)
  \/ \E d \in RelayDaemons : SigtermHandled(d)

(***************************************************************************)
(* C23: a running daemon whose controller has gone away (stdin at          *)
(* end-of-file, stdout closed) eventually exits.                           *)
(***************************************************************************)
C23_ControllerGoneLeadsToExit ==
  \A d \in Daemons :
    (dstate[d] = "listening" /\ dstdio[d] = "closed") ~> (dstate[d] = "exited")

(***************************************************************************)
(* C24: when a daemon exits after SIGINT or SIGTERM, no file is at its     *)
(* socket path and no client connection to it is open.                     *)
(***************************************************************************)
C24_SignalExitCleansUp ==
  [][ \A d \in sigterm :
        (dstate[d] # "exited" /\ dstate'[d] = "exited") =>
          /\ sockFile' = 0
          /\ \A c \in Clients : conn'[c].d = d => conn'[c].st = "closed" ]_vars

\* a daemon with a connected client was signalled and has exited
C24_Witness ==
  \E d \in sigterm :
    /\ dstate[d] = "exited"
    /\ dclients[d] # {}
    /\ \A c \in dclients[d] : conn[c].st = "closed"
    /\ sockFile = 0

(***************************************************************************)
(* C25: a line the daemon reads on stdin is written exactly once to every  *)
(* client connected at that moment and to no other; a client whose         *)
(* connection broke or closed has left the connected set, alone, and gets  *)
(* nothing any more.                                                       *)
(***************************************************************************)
C25_FailureIsolation ==
  [][ /\ \A d \in Daemons :
          dstdinLog'[d] # dstdinLog[d] =>
            \A c \in Clients :
              cwrites'[c] = IF conn[c].st = "open" /\ conn[c].d = d
                             THEN Append(cwrites[c], dstdinLog'[d][Len(dstdinLog'[d])] \o <<NL>>)
                             ELSE cwrites[c]
      /\ \A c \in Clients :
          (conn[c].st = "open" /\ conn'[c].st = "closed" /\ dstate'[conn[c].d] = "listening") =>
            dclients'[conn[c].d] = dclients[conn[c].d] \ {c} ]_vars

\* one client's connection broke, a line came in after that and went to the
\* other client only
C25_Witness ==
  \E c, e \in Clients :
    /\ conn[c].st = "closed"
    /\ conn[e].st = "open"
    /\ conn[c].d = conn[e].d
    /\ cwrites[c] = <<>>
    /\ Len(cwrites[e]) = 2

(***************************************************************************)
(* TaskSpaceCLI (the command-line tool, src/unnamed/part_006). A CLI       *)
(* process uses one client connection. The working directory is a sequence *)
(* of pieces of its path: "U1" and "U2" are pieces that have the form of a *)
(* canonical UUID, any other piece is text without one. The message a      *)
(* command sends is the byte sequence of JSON.stringify: "{", the type,    *)
(* the fields, "}".                                                        *)
(***************************************************************************)
UuidPieces == {"U1", "U2"}
CliCwds == {<<"x">>, <<"x", "U1", "y">>, <<"U2", "x", "U1">>}
CliCommands == {"new-taskspace", "update-taskspace", "status"}
CliOptions == {"none", "name"}

\* the connections CLI processes use
CliProcs == {1}

NoCli == [st |-> "idle", cmd |-> "none", cwd |-> <<>>, code |-> -1, err |-> "none"]

InitKVars == cli = [c \in Clients |-> NoCli]

\* an extractor that takes the last match of the path
C28_Mutant_extractUuidFromPath(cwd) ==
  IF \E i \in DOMAIN cwd : cwd[i] \in UuidPieces
    THEN cwd[CHOOSE i \in DOMAIN cwd :
               cwd[i] \in UuidPieces /\ \A j \in DOMAIN cwd : cwd[j] \in UuidPieces => j <= i]
    ELSE "null"

\* extractUuidFromPath (lines 10-15): cwd.match(uuidRegex) gives the leftmost
\* match of the pattern, or null
extractUuidFromPath(cwd) ==
  IF \E i \in DOMAIN cwd : cwd[i] \in UuidPieces
    THEN cwd[CHOOSE i \in DOMAIN cwd :
               cwd[i] \in UuidPieces /\ \A j \in DOMAIN cwd : cwd[j] \in UuidPieces => i <= j]
    ELSE "null"

\* JSON.stringify of the message of newTaskSpace (lines 75-81), updateTaskSpace
\* (lines 98-104) and status (lines 116-119)
CliMessage(cmd, uuid, opt) ==
  IF cmd = "new-taskspace" THEN <<"{", "N", "name", "}">>
  ELSE IF cmd = "update-taskspace"
    THEN (IF opt = "name" THEN <<"{", "U", uuid, "name", "}">> ELSE <<"{", "U", uuid, "}">>)
  ELSE <<"{", "S", "}">>

CliExit(c, cmd, cwd, code, err) ==
  cli' = [cli EXCEPT ![c] = [st |-> "exited", cmd |-> cmd, cwd |-> cwd, code |-> code, err |-> err]]

\* a sendMessage that connects without looking for the socket file
C26_Mutant_SocketMissing == FALSE

\* sendMessage, line 35: !fs.existsSync(this.socketPath)
SocketMissing == sockFile = 0

\* One invocation of the CLI up to the 'connect' event: the action of the
\* command (lines 141-180), newTaskSpace / updateTaskSpace / status up to
\* sendMessage, and sendMessage up to client.end() (lines 32-49). new-taskspace
\* has its name as a required option.
CliInvoke(c, cmd, cwd, opt) ==
  /\ UNCHANGED <<sshVars, rVars, aVars, bVars, hVars, cVars, mVars, xVars, tVars, fVars, pVars, iVars, eVars, gVars, vVars>>
  /\ cli[c].st = "idle"
  /\ conn[c].st = "idle"
  /\ LET uuid == IF cmd = "update-taskspace" THEN extractUuidFromPath(cwd) ELSE "null"
     IN IF cmd = "update-taskspace" /\ uuid = "null"
        THEN CliExit(c, cmd, cwd, 1, "no-uuid") /\ UNCHANGED dVars
        ELSE IF cmd = "update-taskspace" /\ opt = "none"
        THEN CliExit(c, cmd, cwd, 1, "no-option") /\ UNCHANGED dVars
        ELSE IF SocketMissing
        THEN CliExit(c, cmd, cwd, 1, "no-instance") /\ UNCHANGED dVars
        ELSE IF sockFile = 0 \/ dstate[sockFile] # "listening"
        THEN CliExit(c, cmd, cwd, 1, "connect-failed") /\ UNCHANGED dVars
        ELSE /\ cli' = [cli EXCEPT ![c] = [st |-> "connected", cmd |-> cmd, cwd |-> cwd,
                                            code |-> -1, err |-> "none"]]
             /\ conn' = [conn EXCEPT ![c] = [st |-> "open", d |-> sockFile,
                                              stream |-> CliMessage(cmd, uuid, opt),
                                              inflight |-> CliMessage(cmd, uuid, opt)]]
             /\ dclients' = [dclients EXCEPT ![sockFile] = @ \cup {c}]
             /\ UNCHANGED <<sockFile, dstate, dstdout>>

\* client.on('close') (lines 51-56): the promise resolves, the command prints
\* its confirmation and the process ends with code 0
CliClosed(c) ==
  /\ UNCHANGED <<sshVars, dVars, rVars, aVars, bVars, hVars, cVars, mVars, xVars, tVars, fVars, pVars, iVars, eVars, gVars, vVars>>
  /\ cli[c].st = "connected"
  /\ conn[c].st = "closed"
  /\ cli' = [cli EXCEPT ![c].st = "exited", ![c].code = 0]

\* the 5 s timer (lines 65-72) fires before 'close': the connection is
\* destroyed and the command exits with code 1
CliTimeout(c) ==
  /\ UNCHANGED <<sshVars, rVars, aVars, bVars, hVars, cVars, mVars, xVars, tVars, fVars, pVars, iVars, eVars, gVars, vVars>>
  /\ cli[c].st = "connected"
  /\ conn[c].st = "open"
  /\ cli' = [cli EXCEPT ![c].st = "exited", ![c].code = 1, ![c].err = "timeout"]
  /\ conn' = [conn EXCEPT ![c].st = "closed", ![c].inflight = <<>>]
  /\ dclients' = [dclients EXCEPT ![conn[c].d] = @ \ {c}]
  /\ UNCHANGED <<sockFile, dstate, dstdout>>

NextCli ==
  \/ \E d \in RelayDaemons : DaemonStart(d)
  \/ \E d \in RelayDaemons : DaemonKilled(d)
  \/ \E c \in CliProcs, cmd \in CliCommands, cwd \in CliCwds, opt \in CliOptions :
       CliInvoke(c, cmd, cwd, opt)
  \/ \E c \in CliProcs : DaemonData(c)
  \/ \E c \in CliProcs : DaemonClientClose(c)
  \/ \E c \in CliProcs : CliClosed(c)
  \/ \E c \in CliProcs : CliTimeout(c)

\* the step in which CLI process c is invoked
Invoked(c) == cli[c].st = "idle" /\ cli'[c].st # "idle"

C27_OneRecordPerInvocation ==
  \A c \in CliProcs :
    (/\ cli[c].st = "exited"
     /\ cli[c].err = "none"
     /\ dstate[conn[c].d] = "listening")
    => /\ cli[c].code = 0
       /\ FwdLines(c) = <<conn[c].stream>>

(***************************************************************************)
(* C28: an update-taskspace invoked in a working directory whose path has  *)
(* no canonical UUID in it exits non-zero without a connection; when the   *)
(* path has one, the update_taskspace record the command sends carries the *)
(* first UUID of the path.                                                 *)
(***************************************************************************)
C28_UpdateUsesFirstUuid ==
  \A c \in CliProcs :
    cli[c].cmd = "update-taskspace" =>
      LET cwd == cli[c].cwd
      IN /\ (\A i \in DOMAIN cwd : cwd[i] \notin UuidPieces) =>
              (cli[c].st = "exited" /\ cli[c].code = 1 /\ conn[c].st = "idle")
         /\ conn[c].st # "idle" =>
              \E i \in DOMAIN cwd :
                /\ cwd[i] \in UuidPieces
                /\ \A j \in 1..(i - 1) : cwd[j] \notin UuidPieces
                /\ conn[c].stream[2] = "U"
                /\ conn[c].stream[3] = cwd[i]

\* an update sent from a path with two UUIDs, the second of them first
C28_Witness ==
  \E c \in CliProcs :
    /\ cli[c].cmd = "update-taskspace"
    /\ cli[c].cwd = <<"U2", "x", "U1">>
    /\ cli[c].st = "exited"
    /\ cli[c].code = 0
    /\ conn[c].stream[3] = "U2"

(***************************************************************************)
(* TaskSpaceMCPServer (the tool-protocol endpoint, src/unnamed/part_014).  *)
(* A message is the record of the fields the handler puts in it; a field   *)
(* the handler does not set is "absent" (the working directory: <<>>).     *)
(***************************************************************************)
MaxToolCalls == 2    \* CallTool requests in one behaviour

McpTools == {"new_taskspace", "log_progress", "signal_user"}
ToolNames == McpTools \cup {"other"}

\* no ListTools request was answered yet
Unasked == {"unasked"}

InitMVars ==
  /\ mcp = [st |-> "none", cwd |-> <<>>, taskspaceUuid |-> "null"]
  /\ mcpTools = Unasked
  /\ mcpResults = <<>>
  /\ mcpSent = <<>>

NotMcp == UNCHANGED <<sshVars, dVars, rVars, aVars, bVars, hVars, cVars, kVars, xVars, tVars, fVars, pVars, iVars, eVars, gVars, vVars>>

\* the constructor (lines 24-46): this.taskspaceUuid =
\* this.extractUuidFromPath(process.cwd()), the same function as the CLI's
McpStart(cwd) ==
  /\ NotMcp
  /\ mcp.st = "none"
  /\ mcp' = [st |-> "running", cwd |-> cwd, taskspaceUuid |-> extractUuidFromPath(cwd)]
  /\ UNCHANGED <<mcpTools, mcpResults, mcpSent>>

\* a ListTools handler that offers its tools everywhere
C29_Mutant_ListedTools == McpTools

\* the ListTools handler (lines 57-124)
ListedTools == IF mcp.taskspaceUuid = "null" THEN {} ELSE McpTools

ListTools ==
  /\ NotMcp
  /\ mcp.st = "running"
  /\ mcpTools' = ListedTools
  /\ UNCHANGED <<mcp, mcpResults, mcpSent>>

\* the message of handleNewTaskSpace (lines 184-190), handleLogProgress
\* (lines 217-223) and handleSignalUser (lines 241-246)
ToolMessage(tool) ==
  IF tool = "new_taskspace"
    THEN [type |-> "new_taskspace_request", cwd |-> mcp.cwd, taskspace_uuid |-> "absent"]
  ELSE IF tool = "log_progress"
    THEN [type |-> "progress_log", cwd |-> <<>>, taskspace_uuid |-> mcp.taskspaceUuid]
  ELSE [type |-> "user_signal", cwd |-> <<>>, taskspace_uuid |-> mcp.taskspaceUuid]

\* the CallTool handler (lines 127-177) with the handler of the tool and
\* sendMessage (lines 260-297): without a taskspace UUID, for an unknown tool
\* and when sendMessage rejects the answer is an error; the message is
\* written when a daemon accepts the connection
CallTool(tool) ==
  /\ NotMcp
  /\ mcp.st = "running"
  /\ Len(mcpResults) < MaxToolCalls
  /\ IF mcp.taskspaceUuid = "null" \/ tool \notin McpTools
     THEN /\ mcpResults' = Append(mcpResults, [tool |-> tool, isError |-> TRUE])
          /\ UNCHANGED mcpSent
     ELSE IF sockFile = 0 \/ dstate[sockFile] # "listening"
     THEN /\ mcpResults' = Append(mcpResults, [tool |-> tool, isError |-> TRUE])
          /\ UNCHANGED mcpSent
     ELSE /\ mcpResults' = Append(mcpResults, [tool |-> tool, isError |-> FALSE])
          /\ mcpSent' = Append(mcpSent, ToolMessage(tool))
  /\ UNCHANGED <<mcp, mcpTools>>

NextMcp ==
  \/ \E d \in RelayDaemons : DaemonStart(d)
  \/ \E d \in RelayDaemons : DaemonKilled(d)
  \/ \E cwd \in CliCwds : McpStart(cwd)
  \/ ListTools
  \/ \E tool \in ToolNames : CallTool(tool)

MaxLines == 2          \* lines the daemon writes in one behaviour

\* t: N new_taskspace_request, U update_taskspace, S status_request,
\*    P progress_log, G user_signal, X a type no client sends
EventTypes == {"N", "U", "S", "P", "G", "X"}

\* the types the clients of the daemon put on the bus
ClientEventTypes == {"N", "U", "S", "P", "G"}

DaemonLines == {<<"{", t, "}">> : t \in EventTypes} \cup {<<"L", "g">>}

InitRVars ==
  /\ rsent = <<>>
  /\ rin = <<>>
  /\ rout = <<>>

\* JSON.parse succeeds on a whole event record only.
IsJSON(line) ==
  /\ Len(line) = 3
  /\ line[1] = "{"
  /\ line[3] = "}"
  /\ line[2] \in EventTypes

\* setupMessageHandlers (lines 1006-1010): the types with a handler.
MessageHandlers == {"N", "U", "S"}

\* handleMessage (lines 1147-1156) inside the try of the stdout handler
\* (lines 1059-1067): what becomes of one line.
RouteLine(line) ==
  IF IsJSON(line)
    THEN IF line[2] \in MessageHandlers
           THEN [line |-> line, how |-> "handler"]
           ELSE [line |-> line, how |-> "nohandler"]
    ELSE [line |-> line, how |-> "log"]

\* data.toString().split('\n').filter(line => line.trim())
RECURSIVE FilterBlank(_)
FilterBlank(ls) ==
  IF ls = <<>> THEN <<>>
  ELSE (IF Trim(Head(ls)) # <<>> THEN <<Head(ls)>> ELSE <<>>) \o FilterBlank(Tail(ls))

RECURSIVE RouteAll(_)
RouteAll(ls) ==
  IF ls = <<>> THEN <<>> ELSE <<RouteLine(Head(ls))>> \o RouteAll(Tail(ls))

\* The daemon child writes one more line on its stdout.
DaemonWrites(line) ==
  /\ NotRouter
  /\ Len(rsent) < MaxLines
  /\ rsent' = Append(rsent, line)
  /\ rin' = rin \o line \o <<NL>>
  /\ UNCHANGED rout

\* daemonProcess.stdout.on('data') (lines 1057-1068): the next k bytes of
\* the pipe arrive as one chunk.
RouterData ==
  /\ NotRouter
  /\ \E k \in 1..Len(rin) :
       /\ rout' = rout \o RouteAll(FilterBlank(SplitNL(SubSeq(rin, 1, k))))
       /\ rin' = SubSeq(rin, k + 1, Len(rin))
  /\ UNCHANGED rsent

NextRouter ==
  \/ \E line \in DaemonLines : DaemonWrites(line)
  \/ RouterData

(***************************************************************************)
(* C6: ensure_channel is idempotent -- whatever the interleaving of        *)
(* ensureMaster calls, also inside an earlier call's grace period, one     *)
(* control process is spawned per host: no host ever has two control       *)
(* processes running at once.                                              *)
(***************************************************************************)
C6_OneControlProcessPerHost ==
  \A h \in Hosts : Cardinality(LiveMasters(h)) <= 1

(***************************************************************************)
(* C7: when the control process has exited (or failed to spawn) by the end *)
(* of the grace period, the call fails and the host is not recorded as     *)
(* having a channel: ensureMaster never succeeds with a dead process.      *)
(***************************************************************************)
C7_DeadMasterFailsSetup ==
  [][\A c \in DOMAIN mcalls :
       (/\ mcalls[c].pc = "grace"
        /\ mcalls'[c].pc = "done"
        /\ mprocs[mcalls[c].proc].st # "alive")
       => (/\ mcalls'[c].result = "err"
           /\ masters'[mcalls[c].host] # mcalls[c].proc)]_vars

(***************************************************************************)
(* C2: a daemon that finds the socket path occupied when it starts refuses *)
(* to start: it does not listen and leaves the existing file alone.        *)
(***************************************************************************)
C2_RefusesOccupiedSocket ==
  [][\A d \in Daemons :
       (dstate[d] = "none" /\ dstate'[d] # "none" /\ sockFile # 0)
       => (dstate'[d] # "listening" /\ sockFile' = sockFile)]_vars

(***************************************************************************)
(* C3: a running daemon whose socket file has been removed by another      *)
(* party eventually exits by itself.                                       *)
(***************************************************************************)
C3_SocketDeletionLeadsToExit ==
  \A d \in Daemons :
    (dstate[d] = "listening" /\ sockFile # d) ~> (dstate[d] = "exited")

(***************************************************************************)
(* C4: once every byte of a client whose stream consists of newline-       *)
(* terminated lines has been delivered, however it was cut into 'data'     *)
(* events, the daemon has forwarded exactly the client's lines, each once, *)
(* whole and in order.                                                     *)
(***************************************************************************)
C4_RelayIntegrity ==
  \A c \in Clients :
    (/\ conn[c].st # "idle"
     /\ conn[c].inflight = <<>>
     /\ conn[c].stream # <<>>
     /\ conn[c].stream[Len(conn[c].stream)] = NL)
    => FwdLines(c) = CompleteLines(conn[c].stream)

(***************************************************************************)
(* C5: once the controller has read everything the daemon wrote, however   *)
(* the pipe cut it into chunks, the router has handled every event record  *)
(* written exactly once and whole, in order: a record with a registered    *)
(* type went to its handler, a record of another type was recorded as      *)
(* unrecognized, and nothing else was taken for an event record.           *)
(***************************************************************************)
C5_RouterExactlyOnce ==
  rin = <<>> => SelectSeq(rout, LAMBDA r : r.how # "log")
                  = RouteAll(SelectSeq(rsent, IsJSON))

(***************************************************************************)
(* C17: every event record the router has taken whose type is one of       *)
(* new_taskspace_request, update_taskspace, status_request, progress_log   *)
(* and user_signal went to a handler; a record of any other type was       *)
(* recorded as unrecognized and nothing more.                              *)
(***************************************************************************)
C17_FiveTypesRouted ==
  \A k \in DOMAIN rout :
    IsJSON(rout[k].line) =>
      (rout[k].how = "handler" <=> rout[k].line[2] \in ClientEventTypes)

(***************************************************************************)
(* SwitcherooApp and TaskSpace: the taskspace lifecycle controller.        *)
(* Every action is one run of the event loop: from the resumption of an    *)
(* await (or the arrival of a request) to the next await.                  *)
(***************************************************************************)
MaxTaskspaces == 2   \* uuids generateUUID can hand out
MaxPort == 1         \* ports the remote host can hand to `--port 0`
MaxOps == 1          \* IPC requests in flight next to bootUp
MaxServers == 2      \* editor-server processes alive at once
MaxRuns == 2         \* starts of the controller

AppHost == "h1"
Uuids == 1..MaxTaskspaces
Ports == 1..MaxPort
IpcOps == 1..MaxOps
OpIds == 0..MaxOps
ServerIds == 1..MaxServers

NoName == <<"-", 0>>
PName(n) == <<"P", n>>
IdleOp == [kind |-> "idle", pc |-> "idle", u |-> 0, nm |-> NoName, p |-> 0, i |-> 0]
BootOp(pc) == [kind |-> "boot", pc |-> pc, u |-> 0, nm |-> NoName, p |-> 0, i |-> 0]
FreeServer == [st |-> "free", u |-> 0, port |-> 0, op |-> -1]
NoRoster == [hostname |-> "null", active |-> 0, taskspaces |-> <<>>]
NoMessage == [sent |-> FALSE, active |-> 0, uuids |-> <<>>]
LoadingView == <<"loading", 0>>
ErrorView(e) == <<"error", 0, e>>
VSCodeView(u) == <<"vscode", u>>

InitAVars ==
  /\ taskspaces = <<>>
  /\ activeUuid = 0
  /\ mainView = <<"none", 0>>
  /\ ops = [o \in OpIds |-> IF o = 0 THEN BootOp("init") ELSE IdleOp]
  /\ bootSaved = NoRoster
  /\ notified = NoMessage
  /\ disk = NoRoster
  /\ cloneDirs = {}
  /\ servers = [s \in ServerIds |-> FreeServer]
  /\ tunnels = {}
  /\ run = 1

\* new TaskSpace(...) with the port forgotten
C14_Mutant_TaskSpace(uuid, name, port) ==
  [uuid |-> uuid, name |-> name, port |-> 0, view |-> FALSE, loaded |-> FALSE]

\* new TaskSpace(uuid, name, hostname, port, ...): no view yet
TaskSpace(uuid, name, port) ==
  [uuid |-> uuid, name |-> name, port |-> port, view |-> FALSE, loaded |-> FALSE]

RosterUuids(tss) == {tss[i].uuid : i \in DOMAIN tss}

\* generateUUID returns an identifier that occurs nowhere yet: not in memory, not
\* in the roster file, not on the remote host
UnusedUuids ==
  Uuids \ (RosterUuids(taskspaces) \cup RosterUuids(disk.taskspaces)
            \cup RosterUuids(bootSaved.taskspaces) \cup cloneDirs
            \cup {ops[o].u : o \in OpIds} \cup {servers[s].u : s \in ServerIds}
            \cup {disk.active, bootSaved.active, activeUuid})
generateUUID == CHOOSE u \in UnusedUuids : \A v \in UnusedUuids : u <= v

\* taskspaceWithUuid: the index of the first taskspace with that uuid
taskspaceWithUuid(tss, u) == CHOOSE i \in DOMAIN tss : tss[i].uuid = u /\ \A j \in 1..(i-1) : tss[j].uuid # u

\* saveTaskSpaceData: what is written to the roster file
saveTaskSpaceData(tss, act) ==
  [hostname |-> AppHost, active |-> act,
   taskspaces |-> [i \in DOMAIN tss |-> [uuid |-> tss[i].uuid, name |-> tss[i].name, port |-> tss[i].port]]]

\* the 'update-taskspaces' message notifyTaskSpacesChanged posts
UpdateMessage(tss, act) == [sent |-> TRUE, active |-> act, uuids |-> [i \in DOMAIN tss |-> tss[i].uuid]]

\* checkTaskSpaceHealth / waitForServer: a server answers on that port of the host
Listening(p) == \E s \in ServerIds : servers[s].st = "listening" /\ servers[s].port = p

\* forwardPort that opens nothing
C12_Mutant_forwardPort(p) == tunnels

\* forwardPort: sshManager.createTunnel spawns `ssh -L port:localhost:port`; the
\* process lives as long as the controller's connection does
forwardPort(p) == tunnels \cup {p}

\* how an operation ends: bootUp stays booted or shows the error view, an IPC
\* handler replies and its slot is free again
\* how an operation ends: bootUp stays "ready" or "error"; an IPC handler
\* returns { success: true } or { success: false, error } to its requester
\* (lines 405-445) and its slot is free again
OpDone(o) == IF o = 0 THEN BootOp("ready") ELSE [IdleOp EXCEPT !.kind = "replied-success"]
OpFailed(o) == IF o = 0 THEN BootOp("error") ELSE [IdleOp EXCEPT !.kind = "replied-failure"]

\* the catch blocks: bootUp shows the error view (lines 332-342), the IPC
\* handlers leave the main view as it is
C34_Mutant_FailedView(o, e) == ErrorView(e)

FailedView(o, e) == IF o = 0 THEN ErrorView(e) ELSE mainView

\* switchTaskSpace up to the first await inside ensureView / ensureVSCodeServer,
\* starting from roster tss, active uuid act, roster file dsk and last message ntf
switchTaskSpace(o, tss, act, u, dsk, ntf) ==
  LET ts == tss[taskspaceWithUuid(tss, u)] IN
  IF ts.view
  THEN /\ taskspaces' = tss
       /\ activeUuid' = u
       /\ mainView' = VSCodeView(u)
       /\ disk' = saveTaskSpaceData(tss, u)
       /\ notified' = UpdateMessage(tss, u)
       /\ ops' = [ops EXCEPT ![o] = OpDone(o)]
  ELSE /\ taskspaces' = tss
       /\ activeUuid' = act
       /\ mainView' = LoadingView
       /\ disk' = dsk
       /\ notified' = ntf
       /\ ops' = [ops EXCEPT ![o] = [kind |-> IF o = 0 THEN "boot" ELSE "switch",
                                     pc |-> IF ts.port # 0 THEN "health" ELSE "prep",
                                     u |-> u, nm |-> NoName, p |-> ts.port, i |-> 0]]

\* bootUp from "Make sure *some* taskspace is selected" on
BootSelect(tss, act, dsk, ntf) ==
  LET act2 == IF act = 0 \/ act \notin RosterUuids(tss) THEN tss[1].uuid ELSE act
  IN switchTaskSpace(0, tss, act2, act2, dsk, ntf)

\* bootUp from "Make sure there is at least one taskspace" on
BootContinue(tss, act, dsk, ntf) ==
  IF tss = <<>>
  THEN /\ UnusedUuids # {}
       /\ taskspaces' = tss
       /\ activeUuid' = act
       /\ disk' = dsk
       /\ notified' = ntf
       /\ mainView' = LoadingView
       /\ ops' = [ops EXCEPT ![0] = [kind |-> "boot", pc |-> "provision", u |-> generateUUID,
                                     nm |-> PName(Len(tss)), p |-> 0, i |-> 0]]
  ELSE BootSelect(tss, act, dsk, ntf)

\* bootUp, from the start to the first await of restoreSavedTaskSpaces or
\* createNewTaskSpace; ok = the sidebar loaded and the daemon was deployed and started
BootUp(ok) ==
  /\ NotApp
  /\ ops[0].pc = "init"
  /\ IF ~ok
     THEN /\ ops' = [ops EXCEPT ![0] = OpFailed(0)]
          /\ mainView' = ErrorView("daemon")
          /\ UNCHANGED <<taskspaces, activeUuid, bootSaved, notified, disk>>
     ELSE IF disk.hostname = AppHost /\ Len(disk.taskspaces) > 0
     THEN /\ bootSaved' = disk
          /\ ops' = [ops EXCEPT ![0] = [BootOp("restore") EXCEPT !.i = 1]]
          /\ mainView' = LoadingView
          /\ UNCHANGED <<taskspaces, activeUuid, notified, disk>>
     ELSE /\ BootContinue(taskspaces, activeUuid, disk, notified)
          /\ UNCHANGED bootSaved
  /\ UNCHANGED <<cloneDirs, servers, tunnels, run>>

\* restoreSavedTaskSpaces: the `test -d` of one saved entry returns (transport
\* = the command reached the remote host); after the last entry the saved
\* active uuid is adopted, bootUp notifies and carries on
restoreSavedTaskSpace(transport) ==
  /\ NotApp
  /\ ops[0].pc = "restore"
  /\ LET datum == bootSaved.taskspaces[ops[0].i]
         tss == IF transport /\ datum.uuid \in cloneDirs
                THEN Append(taskspaces, TaskSpace(datum.uuid, datum.name, datum.port))
                ELSE taskspaces
         act == IF bootSaved.active # 0 THEN bootSaved.active ELSE activeUuid
     IN IF ops[0].i < Len(bootSaved.taskspaces)
        THEN /\ taskspaces' = tss
             /\ ops' = [ops EXCEPT ![0].i = @ + 1]
             /\ UNCHANGED <<activeUuid, mainView, bootSaved, notified, disk>>
        ELSE /\ bootSaved' = NoRoster
             /\ BootContinue(tss, act, saveTaskSpaceData(tss, act), UpdateMessage(tss, act))
  /\ UNCHANGED <<cloneDirs, servers, tunnels, run>>

\* the `test -d` ran on the remote host: exit status 0 or 1
RestoreSavedTaskSpace == restoreSavedTaskSpace(TRUE)

\* the `test -d` of an entry whose directory exists did not run: the control
\* channel is down or the ssh child fails, and execSSHCommand rejects as it
\* does for exit status 1
RestoreProbeFailed ==
  /\ ops[0].pc = "restore"
  /\ bootSaved.taskspaces[ops[0].i].uuid \in cloneDirs
  /\ restoreSavedTaskSpace(FALSE)

\* a create request that enters the taskspace in the roster before provisioning
C16_Mutant_HandleCreateTaskSpace(o) ==
  /\ NotApp
  /\ ops[0].pc # "init"
  /\ ops[o].pc = "idle"
  /\ UnusedUuids # {}
  /\ ops' = [ops EXCEPT ![o] = [kind |-> "create", pc |-> "provision", u |-> generateUUID,
                                nm |-> PName(Len(taskspaces)), p |-> 0, i |-> 0]]
  /\ taskspaces' = Append(taskspaces, TaskSpace(generateUUID, PName(Len(taskspaces)), 0))
  /\ UNCHANGED <<activeUuid, mainView, bootSaved, notified, disk,
                 cloneDirs, servers, tunnels, run>>

\* handleCreateTaskSpace: the '+' button; createNewTaskSpace up to its await
HandleCreateTaskSpace(o) ==
  /\ NotApp
  /\ ops[0].pc # "init"
  /\ ops[o].pc = "idle"
  /\ UnusedUuids # {}
  /\ ops' = [ops EXCEPT ![o] = [kind |-> "create", pc |-> "provision", u |-> generateUUID,
                                nm |-> PName(Len(taskspaces)), p |-> 0, i |-> 0]]
  /\ UNCHANGED <<taskspaces, activeUuid, mainView, bootSaved, notified, disk,
                 cloneDirs, servers, tunnels, run>>

\* createNewTaskSpace after createTaskSpaceDirectory returned (ok) or threw
createNewTaskSpace(o, ok) ==
  /\ NotApp
  /\ ops[o].pc = "provision"
  /\ IF ~ok
     THEN /\ ops' = [ops EXCEPT ![o] = OpFailed(o)]
          /\ mainView' = FailedView(o, "provision")
          /\ UNCHANGED <<taskspaces, activeUuid, notified, disk, cloneDirs>>
     ELSE LET tss == Append(taskspaces, TaskSpace(ops[o].u, ops[o].nm, 0))
              dsk == saveTaskSpaceData(tss, activeUuid)
              ntf == UpdateMessage(tss, activeUuid)
          IN /\ cloneDirs' = cloneDirs \cup {ops[o].u}
             /\ IF o = 0
                THEN BootSelect(tss, activeUuid, dsk, ntf)
                ELSE /\ taskspaces' = tss
                     /\ disk' = dsk
                     /\ notified' = ntf
                     /\ ops' = [ops EXCEPT ![o] = OpDone(o)]
                     /\ UNCHANGED <<activeUuid, mainView>>
  /\ UNCHANGED <<bootSaved, servers, tunnels, run>>

\* handleSwitchTaskSpaceMessage for a uuid of the roster
HandleSwitchTaskSpaceMessage(o, u) ==
  /\ NotApp
  /\ ops[0].pc # "init"
  /\ ops[o].pc = "idle"
  /\ u \in RosterUuids(taskspaces)
  /\ switchTaskSpace(o, taskspaces, activeUuid, u, disk, notified)
  /\ UNCHANGED <<bootSaved, cloneDirs, servers, tunnels, run>>

\* ensureVSCodeServer after checkTaskSpaceHealth returned; when healthy, ensureView
\* goes on to create the view and awaits waitForServer
ensureVSCodeServer(o) ==
  /\ NotApp
  /\ ops[o].pc = "health"
  /\ LET i == taskspaceWithUuid(taskspaces, ops[o].u) IN
     IF Listening(ops[o].p)
     THEN /\ tunnels' = forwardPort(taskspaces[i].port)
          /\ taskspaces' = [taskspaces EXCEPT ![i].view = TRUE]
          /\ ops' = [ops EXCEPT ![o].pc = "probe"]
     ELSE /\ ops' = [ops EXCEPT ![o].pc = "prep"]
          /\ UNCHANGED <<taskspaces, tunnels>>
  /\ UNCHANGED <<activeUuid, mainView, bootSaved, notified, disk, cloneDirs, servers, run>>

\* uname, installVSCodeServer, the extension uploads and executeStreamingCommand:
\* ok launches the server process, otherwise one of them threw
startVSCodeServer(o, ok) ==
  /\ NotApp
  /\ ops[o].pc = "prep"
  /\ IF ok
     THEN /\ \E s \in ServerIds : servers[s].st = "free"
          /\ LET s == CHOOSE s \in ServerIds : servers[s].st = "free" /\ \A r \in 1..(s-1) : servers[r].st # "free"
             IN servers' = [servers EXCEPT ![s] = [st |-> "starting", u |-> ops[o].u, port |-> 0, op |-> o]]
          /\ ops' = [ops EXCEPT ![o].pc = "starting"]
          /\ UNCHANGED mainView
     ELSE /\ ops' = [ops EXCEPT ![o] = OpFailed(o)]
          /\ mainView' = FailedView(o, "transport")
          /\ UNCHANGED servers
  /\ UNCHANGED <<taskspaces, activeUuid, bootSaved, notified, disk, cloneDirs, tunnels, run>>

\* the server announces its port on stdout; if its start has not timed out the
\* promise resolves: port recorded, port forwarded, view created, waitForServer awaited
PortAnnounced(s, p) ==
  /\ NotApp
  /\ servers[s].st = "starting"
  /\ \A r \in ServerIds : servers[r].st = "listening" => servers[r].port # p
  /\ servers' = [servers EXCEPT ![s] = [@ EXCEPT !.st = "listening", !.port = p, !.op = -1]]
  /\ IF servers[s].op # -1
     THEN LET o == servers[s].op
              i == taskspaceWithUuid(taskspaces, ops[o].u)
          IN /\ taskspaces' = [taskspaces EXCEPT ![i].port = p, ![i].view = TRUE]
             /\ tunnels' = forwardPort(p)
             /\ ops' = [ops EXCEPT ![o].pc = "probe"]
     ELSE UNCHANGED <<taskspaces, tunnels, ops>>
  /\ UNCHANGED <<activeUuid, mainView, bootSaved, notified, disk, cloneDirs, run>>

\* the 60 s timer of startVSCodeServer fires with no port seen: reject
StartupTimeout(o) ==
  /\ NotApp
  /\ ops[o].pc = "starting"
  /\ ops' = [ops EXCEPT ![o] = OpFailed(o)]
  /\ mainView' = FailedView(o, "startup-timeout")
  /\ servers' = [s \in ServerIds |-> IF servers[s].op = o THEN [servers[s] EXCEPT !.op = -1] ELSE servers[s]]
  /\ UNCHANGED <<taskspaces, activeUuid, bootSaved, notified, disk, cloneDirs, tunnels, run>>

\* ensureView after waitForServer and loadURL, then the rest of switchTaskSpace
waitForServer(o) ==
  /\ NotApp
  /\ ops[o].pc = "probe"
  /\ LET u == ops[o].u
         i == taskspaceWithUuid(taskspaces, u)
     IN IF Listening(taskspaces[i].port) /\ taskspaces[i].port \in tunnels
        THEN /\ taskspaces' = [taskspaces EXCEPT ![i].loaded = TRUE]
             /\ mainView' = VSCodeView(u)
             /\ activeUuid' = u
             /\ disk' = saveTaskSpaceData(taskspaces, u)
             /\ notified' = UpdateMessage(taskspaces, u)
             /\ ops' = [ops EXCEPT ![o] = OpDone(o)]
        ELSE /\ ops' = [ops EXCEPT ![o] = OpFailed(o)]
             /\ mainView' = FailedView(o, "unreachable")
             /\ UNCHANGED <<taskspaces, activeUuid, disk, notified>>
  /\ UNCHANGED <<bootSaved, cloneDirs, servers, tunnels, run>>

\* ---- the environment of the controller
\* an editor-server process exits (crash, auto-shutdown, its ssh session ends)
ServerExits(s) ==
  /\ NotApp
  /\ servers[s].st # "free"
  /\ servers' = [servers EXCEPT ![s] = FreeServer]
  /\ UNCHANGED <<taskspaces, activeUuid, mainView, ops, bootSaved, notified, disk,
                 cloneDirs, tunnels, run>>

\* somebody removes a clone directory on the remote host
CloneDirRemoved(u) ==
  /\ NotApp
  /\ u \in cloneDirs
  /\ cloneDirs' = cloneDirs \ {u}
  /\ UNCHANGED <<taskspaces, activeUuid, mainView, ops, bootSaved, notified, disk,
                 servers, tunnels, run>>

\* the controller quits and is started again: new SwitcherooApp(), nothing in
\* memory, the roster file and the remote host as they were
Relaunch ==
  /\ NotApp
  /\ run < MaxRuns
  /\ run' = run + 1
  /\ taskspaces' = <<>>
  /\ activeUuid' = 0
  /\ mainView' = <<"none", 0>>
  /\ ops' = [o \in OpIds |-> IF o = 0 THEN BootOp("init") ELSE IdleOp]
  /\ bootSaved' = NoRoster
  /\ notified' = NoMessage
  /\ tunnels' = {}
  /\ servers' = [s \in ServerIds |-> [servers[s] EXCEPT !.op = -1]]
  /\ UNCHANGED <<disk, cloneDirs>>

\* One run of the controller on a fresh installation, on a host that hands out
\* ports from a wider range.
MaxColdPort == 2
ColdPorts == 1..MaxColdPort

NextAppCold ==
  \/ \E ok \in BOOLEAN : BootUp(ok)
  \/ \E o \in IpcOps : HandleCreateTaskSpace(o)
  \/ \E o \in OpIds, ok \in BOOLEAN : createNewTaskSpace(o, ok)
  \/ \E o \in IpcOps, u \in Uuids : HandleSwitchTaskSpaceMessage(o, u)
  \/ \E o \in OpIds, ok \in BOOLEAN : startVSCodeServer(o, ok)
  \/ \E s \in ServerIds, p \in ColdPorts : PortAnnounced(s, p)
  \/ \E o \in OpIds : StartupTimeout(o)
  \/ \E o \in OpIds : waitForServer(o)
  \/ \E s \in ServerIds : ServerExits(s)

NextApp ==
  \/ \E ok \in BOOLEAN : BootUp(ok)
  \/ RestoreSavedTaskSpace
  \/ \E o \in IpcOps : HandleCreateTaskSpace(o)
  \/ \E o \in OpIds, ok \in BOOLEAN : createNewTaskSpace(o, ok)
  \/ \E o \in IpcOps, u \in Uuids : HandleSwitchTaskSpaceMessage(o, u)
  \/ \E o \in OpIds : ensureVSCodeServer(o)
  \/ \E o \in OpIds, ok \in BOOLEAN : startVSCodeServer(o, ok)
  \/ \E s \in ServerIds, p \in Ports : PortAnnounced(s, p)
  \/ \E o \in OpIds : StartupTimeout(o)
  \/ \E o \in OpIds : waitForServer(o)
  \/ \E s \in ServerIds : ServerExits(s)
  \/ \E u \in Uuids : CloneDirRemoved(u)
  \/ Relaunch

(***************************************************************************)
(* The bus events as they reach SwitcherooApp: handleMessage calls the      *)
(* handler of the event's type, which calls handleTaskSpaceRequest or       *)
(* handleStatusRequest of the controller.                                   *)
(***************************************************************************)
MaxEvents == 3       \* event records dispatched in one behaviour
MaxNames == 1        \* names a CLI request can carry
CliNames == {<<"cli", k>> : k \in 1..MaxNames}

InitBVars ==
  /\ dispatched = [n |-> 0, type |-> "none", uuid |-> 0, name |-> NoName]
  /\ dstdin = <<>>

\* the daemon child exists once bootUp has started it
DaemonStarted == ops[0].pc # "init"

Dispatch(type, u, name) ==
  /\ DaemonStarted
  /\ dispatched.n < MaxEvents
  /\ dispatched' = [n |-> dispatched.n + 1, type |-> type, uuid |-> u, name |-> name]

\* SwitcherooApp.handleStatusRequest: the summary of the roster
StatusSummary ==
  [taskspaces |-> [i \in DOMAIN taskspaces |->
                    [name |-> taskspaces[i].name,
                     status |-> IF taskspaces[i].uuid = activeUuid THEN "active" ELSE "inactive",
                     uuid |-> taskspaces[i].uuid]],
   activeTaskSpace |-> activeUuid]

\* a sendMessage that writes nothing
C18_Mutant_sendMessage(message) == dstdin

\* sendMessage: one line on the stdin of the daemon child
sendMessage(message) == Append(dstdin, message)

\* status_request: handleStatusRequest of the router answers through sendMessage
\* with the fields of the summary spread into the message
HandleStatusRequest ==
  /\ NotBus
  /\ Dispatch("status_request", 0, NoName)
  /\ dstdin' = sendMessage([type |-> "status_response"] @@ StatusSummary)
  /\ UNCHANGED aVars

\* an update that renames the first entry of the roster, whatever the uuid
C20_Mutant_taskspaceForUpdate(tss, u) == 1

\* updateTaskSpaceFromCLI: const taskspace = this.taskspaceWithUuid(uuid)
taskspaceForUpdate(tss, u) == taskspaceWithUuid(tss, u)

\* update_taskspace: handleUpdateTaskSpace, handleTaskSpaceRequest and
\* updateTaskSpaceFromCLI; name = NoName is a record without a name and
\* u = 0 a record without a uuid
HandleUpdateTaskSpace(u, name) ==
  /\ NotBus
  /\ Dispatch("update_taskspace", u, name)
  /\ IF u \in RosterUuids(taskspaces)
     THEN LET i == taskspaceForUpdate(taskspaces, u)
              tss == IF name # NoName THEN [taskspaces EXCEPT ![i].name = name] ELSE taskspaces
          IN /\ taskspaces' = tss
             /\ disk' = saveTaskSpaceData(tss, activeUuid)
             /\ notified' = UpdateMessage(tss, activeUuid)
     ELSE UNCHANGED <<taskspaces, disk, notified>>
  /\ UNCHANGED <<activeUuid, mainView, ops, bootSaved, cloneDirs, servers, tunnels, run, dstdin>>

\* new_taskspace_request: handleNewTaskSpaceRequest, handleTaskSpaceRequest and
\* createNewTaskSpaceFromCLI up to the await inside createNewTaskSpace, which
\* nobody awaits. When the directory is there createNewTaskSpace pushes the
\* taskspace and the continuation sets the name of the request in the same turn.
\* A record without a name (NoName) starts nothing.
HandleNewTaskSpaceRequest(o, name) ==
  /\ NotBus
  /\ Dispatch("new_taskspace_request", 0, name)
  /\ IF name = NoName
     THEN UNCHANGED ops
     ELSE /\ ops[o].pc = "idle"
          /\ UnusedUuids # {}
          /\ ops' = [ops EXCEPT ![o] = [kind |-> "cli", pc |-> "provision", u |-> generateUUID,
                                        nm |-> name, p |-> 0, i |-> 0]]
  /\ UNCHANGED <<taskspaces, activeUuid, mainView, bootSaved, notified, disk,
                 cloneDirs, servers, tunnels, run, dstdin>>

\* One run of the controller with the bus attached.
NextBus ==
  \/ BootUp(TRUE)
  \/ \E o \in OpIds, ok \in BOOLEAN : createNewTaskSpace(o, ok)
  \/ \E o \in IpcOps, u \in Uuids : HandleSwitchTaskSpaceMessage(o, u)
  \/ \E o \in OpIds : startVSCodeServer(o, TRUE)
  \/ \E s \in ServerIds, p \in Ports : PortAnnounced(s, p)
  \/ \E o \in OpIds : waitForServer(o)
  \/ HandleStatusRequest
  \/ \E u \in Uuids \cup {0}, name \in CliNames \cup {NoName} : HandleUpdateTaskSpace(u, name)
  \/ \E o \in IpcOps, name \in CliNames \cup {NoName} : HandleNewTaskSpaceRequest(o, name)

\* The controller has booted and no operation is in flight.
Quiescent == ops[0].pc = "ready" /\ \A o \in IpcOps : ops[o].pc = "idle"

\* The editor-server processes launched for taskspace u and still alive.
ServersOf(u) == {s \in ServerIds : servers[s].st # "free" /\ servers[s].u = u}

\* C1: switch requests on one taskspace are serialized, so that at most one
\* editor-server process is launched and alive per taskspace at any time.
C1_OneServerPerTaskspace ==
  \A u \in Uuids : Cardinality(ServersOf(u)) <= 1

\* C8: the active taskspace identifier is absent or that of a roster member: in
\* memory, in the roster file, and in the last 'update-taskspaces' message.
C8_ActiveIsRosterMember ==
  /\ activeUuid = 0 \/ activeUuid \in RosterUuids(taskspaces)
  /\ disk.active = 0 \/ disk.active \in RosterUuids(disk.taskspaces)
  /\ notified.active = 0 \/ notified.active \in {notified.uuids[i] : i \in DOMAIN notified.uuids}

\* C9: whenever no operation is in flight, the roster file's uuid, name, port and
\* active fields equal the roster in memory.
C9_DiskMatchesMemory ==
  Quiescent =>
    /\ disk.taskspaces = saveTaskSpaceData(taskspaces, activeUuid).taskspaces
    /\ disk.active = activeUuid

\* C10: when a server start is abandoned on the startup timeout, the taskspace's
\* last-known port is cleared, also when it was non-zero before the attempt.
C10_TimeoutClearsPort ==
  [][\A o \in OpIds :
       (/\ ops[o].pc = "starting"
        /\ ops[o].p # 0
        /\ ops'[o].pc \in {"idle", "error"}
        /\ run' = run)
       => taskspaces'[taskspaceWithUuid(taskspaces', ops[o].u)].port = 0]_vars

\* C11: a taskspace whose probe failed is not presented on the next switch: with
\* no probe of it under way, the editor view shown in the main area is one that
\* was successfully probed and loaded.
C11_PresentedViewWasLoaded ==
  \A i \in DOMAIN taskspaces :
    (/\ mainView = VSCodeView(taskspaces[i].uuid)
     /\ ~ \E o \in OpIds : ops[o].pc = "probe" /\ ops[o].u = taskspaces[i].uuid)
    => taskspaces[i].loaded

\* A taskspace is Running when its editor view exists for its last-known port.
Running(i) == taskspaces[i].view

C13_NoStaleForward ==
  \A p \in tunnels : \E i \in DOMAIN taskspaces : taskspaces[i].port = p

\* The saved entries bootUp has probed so far.
Probed(o) == IF o.pc = "restore" THEN o.i - 1 ELSE Len(bootSaved.taskspaces)

\* The roster tss, cut down to the taskspaces of the loaded file, holds the first
\* n saved entries whose clone directory exists (dirs: the directories that exist
\* now; a directory removed after its probe may but need not be there), in the
\* saved order, each with its saved uuid, name and last-known port.
Restored(tss, n, dirs) ==
  LET saved == SubSeq(bootSaved.taskspaces, 1, n)
      mem == SelectSeq(tss, LAMBDA t : t.uuid \in RosterUuids(saved))
  IN \E D \in SUBSET RosterUuids(saved) :
       /\ (dirs \cap RosterUuids(saved)) \subseteq D
       /\ LET kept == SelectSeq(saved, LAMBDA d : d.uuid \in D)
          IN /\ Len(mem) = Len(kept)
             /\ \A k \in DOMAIN kept :
                  /\ mem[k].uuid = kept[k].uuid
                  /\ mem[k].name = kept[k].name
                  /\ (~mem[k].view => mem[k].port = kept[k].port)

BootSelected ==
  IF ops[0].pc \in {"init", "restore", "provision"} /\ ops'[0].pc \in {"health", "prep", "ready"}
  THEN IF ops'[0].pc = "ready" THEN activeUuid' ELSE ops'[0].u
  ELSE 0

\* The restored taskspaces, in roster order, at the end of restoreSavedTaskSpaces.
Survivors == SelectSeq(taskspaces', LAMBDA t : t.uuid \in RosterUuids(bootSaved.taskspaces))

\* C15: boot focuses the persisted active taskspace if it survived restoration,
\* otherwise the first surviving taskspace, otherwise (nothing survived) a freshly
\* created one; after a successful boot the roster is non-empty and that
\* taskspace is the focused one.
C15_BootFocus ==
  [][/\ (BootSelected # 0 /\ ops[0].pc = "restore") =>
          IF bootSaved.active \in RosterUuids(Survivors)
          THEN BootSelected = bootSaved.active
          ELSE BootSelected = Survivors[1].uuid
     /\ (BootSelected # 0 /\ ops[0].pc # "restore") =>
          BootSelected \in RosterUuids(taskspaces')
     /\ (ops[0].pc # "ready" /\ ops'[0].pc = "ready") =>
          LET u == IF BootSelected # 0 THEN BootSelected ELSE ops[0].u
          IN /\ taskspaces' # <<>>
             /\ activeUuid' = u
             /\ mainView' = VSCodeView(u)]_vars

\* C16: a create request whose provisioning fails leaves no entry for the new
\* uuid: the roster in memory, the roster file and the active uuid are as before.
C16_ProvisionFailureLeavesRoster ==
  [][\A o \in OpIds :
       (/\ ops[o].pc = "provision"
        /\ ops'[o].pc # "provision"
        /\ run' = run
        /\ ops[o].u \notin cloneDirs')
       => (/\ taskspaces' = taskspaces
           /\ disk' = disk
           /\ activeUuid' = activeUuid
           /\ ops[o].u \notin RosterUuids(taskspaces')
           /\ ops[o].u \notin RosterUuids(disk'.taskspaces))]_vars

\* the initial create of a restarted controller has failed: the roster on
\* disk and in memory are as they were
C16_Witness ==
  /\ mainView = ErrorView("provision")
  /\ taskspaces = <<>>
  /\ run = 2
  /\ disk.hostname = AppHost

\* the step dispatches an event record of this type
Dispatches(type) == dispatched'.n # dispatched.n /\ dispatched'.type = type

C19_OneEventAtATime ==
  [][ dispatched'.n # dispatched.n =>
        \A o \in OpIds : ~(ops[o].kind = "cli" /\ ops[o].pc = "provision") ]_vars

(***************************************************************************)
(* C20: an update_taskspace with uuid u and name n renames the roster      *)
(* entry with uuid u and no other, and the roster file then holds the      *)
(* roster with the new name; when no entry has uuid u the roster in memory *)
(* and on disk is unchanged. No other name, no port, no uuid and not the   *)
(* active identifier changes.                                              *)
(***************************************************************************)
C20_UpdateRenamesOne ==
  [][ Dispatches("update_taskspace") =>
        LET u == dispatched'.uuid
            n == dispatched'.name
        IN /\ activeUuid' = activeUuid
           /\ Len(taskspaces') = Len(taskspaces)
           /\ \A i \in DOMAIN taskspaces :
                /\ taskspaces'[i].uuid = taskspaces[i].uuid
                /\ taskspaces'[i].port = taskspaces[i].port
                /\ taskspaces'[i].name =
                     IF taskspaces[i].uuid = u /\ n # NoName THEN n ELSE taskspaces[i].name
           /\ IF u \in RosterUuids(taskspaces)
              THEN /\ disk'.active = activeUuid
                   /\ Len(disk'.taskspaces) = Len(taskspaces)
                   /\ \A i \in DOMAIN taskspaces :
                        /\ disk'.taskspaces[i].uuid = taskspaces'[i].uuid
                        /\ disk'.taskspaces[i].name = taskspaces'[i].name
              ELSE disk' = disk /\ taskspaces' = taskspaces ]_vars

\* the second of two taskspaces was renamed and the roster file shows it
C20_Witness ==
  /\ dispatched.type = "update_taskspace"
  /\ dispatched.name \in CliNames
  /\ Len(taskspaces) = 2
  /\ dispatched.uuid = taskspaces[2].uuid
  /\ taskspaces[2].name = dispatched.name
  /\ taskspaces[1].name = PName(0)
  /\ Len(disk.taskspaces) = 2
  /\ disk.taskspaces[2].name = dispatched.name

\* ---------------------------------------------------------------------------
\* ssh-manager.ts: executeCommand (lines 77-112)
\* ---------------------------------------------------------------------------

MaxExecs == 2
MaxOut == 2
MaxErr == 1

Execs == 1..MaxExecs
ExecHosts == {"h1"}
ExecCommands == {"cmd"}
\* what the subordinate writes: a visible character, a blank, a line feed
OutChars == {"o", " ", NL}
ErrChars == {"e"}
ExitCodes == {0, 1, 255}

NoResult == [how |-> "pending", value |-> <<>>, command |-> "", code |-> -1, stderr |-> <<>>]
NoExec == [pc |-> "idle", host |-> "", command |-> "", call |-> 0, spawned |-> 0,
           stdout |-> <<>>, stderr |-> <<>>, code |-> -1, lost |-> FALSE,
           result |-> NoResult]

InitXVars == xcalls = [x \in Execs |-> NoExec]

NotExec == UNCHANGED <<dVars, rVars, aVars, bVars, hVars, cVars, kVars, mVars, tVars, fVars, pVars, iVars, eVars, gVars, vVars>>

\* executeCommand(host, command) up to its await (lines 77-78): the call of
\* ensureMaster, which may find the master or spawn one.
ExecCalled(x, h, cmd, ok) ==
  /\ NotExec
  /\ xcalls[x].pc = "idle"
  /\ \A y \in Execs : y < x => xcalls[y].pc # "idle"
  /\ ensureMaster(h, ok)
  /\ xcalls' = [xcalls EXCEPT ![x] = [NoExec EXCEPT !.pc = "master", !.host = h,
                                                     !.command = cmd,
                                                     !.call = Len(mcalls) + 1]]

\* ensureMaster settled.  Rejected: executeCommand rejects with that error
\* and spawns nothing.  Resolved: the one spawn of lines 83-89; a spawn that
\* fails (ok = FALSE) emits 'error' on the next tick.
ExecSpawn(x, ok) ==
  /\ NotExec
  /\ xcalls[x].pc = "master"
  /\ mcalls[xcalls[x].call].result # "pending"
  /\ IF mcalls[xcalls[x].call].result = "err"
       THEN /\ ok
            /\ xcalls' = [xcalls EXCEPT ![x].pc = "done",
                                        ![x].result = [NoResult EXCEPT !.how = "rejected-master"]]
       ELSE xcalls' = [xcalls EXCEPT ![x].pc = IF ok THEN "running" ELSE "spawnerr",
                                     ![x].spawned = @ + 1]
  /\ UNCHANGED sshVars

\* ssh.stdout.on('data') (lines 94-96)
SubStdout(x, ch) ==
  /\ NotExec
  /\ xcalls[x].pc = "running"
  /\ Len(xcalls[x].stdout) < MaxOut
  /\ xcalls' = [xcalls EXCEPT ![x].stdout = Append(@, ch)]
  /\ UNCHANGED sshVars

\* ssh.stderr.on('data') (lines 98-100)
SubStderr(x, ch) ==
  /\ NotExec
  /\ xcalls[x].pc = "running"
  /\ Len(xcalls[x].stderr) < MaxErr
  /\ xcalls' = [xcalls EXCEPT ![x].stderr = Append(@, ch)]
  /\ UNCHANGED sshVars

\* what resolve() is given (line 104): stdout.trim()
C30_Mutant_Resolved(x) == xcalls[x].stdout

Resolved(x) == Trim(xcalls[x].stdout)

\* ssh.on('close') (lines 102-108).  A subordinate whose control process is
\* gone has lost its channel and exits with 255 (lost records that case).
SubClose(x, code) ==
  /\ NotExec
  /\ xcalls[x].pc = "running"
  /\ mprocs[mcalls[xcalls[x].call].proc].st # "alive" => code = 255
  /\ xcalls' = [xcalls EXCEPT
       ![x].pc = "done",
       ![x].code = code,
       ![x].lost = mprocs[mcalls[xcalls[x].call].proc].st # "alive",
       ![x].result = IF code = 0
                       THEN [NoResult EXCEPT !.how = "resolved", !.value = Resolved(x)]
                       ELSE [NoResult EXCEPT !.how = "rejected",
                                             !.command = xcalls[x].command,
                                             !.code = code,
                                             !.stderr = xcalls[x].stderr]]
  /\ UNCHANGED sshVars

\* ssh.on('error', reject) (line 110): the spawn failed; the promise rejects
\* with the spawn error itself, and the 'close' that follows finds it settled.
SubError(x) ==
  /\ NotExec
  /\ xcalls[x].pc = "spawnerr"
  /\ xcalls' = [xcalls EXCEPT ![x].pc = "done",
                              ![x].result = [NoResult EXCEPT !.how = "rejected-spawn"]]
  /\ UNCHANGED sshVars

NextExec ==
  \/ \E x \in Execs, h \in ExecHosts, cmd \in ExecCommands, ok \in BOOLEAN :
       ExecCalled(x, h, cmd, ok)
  \/ \E x \in Execs, ok \in BOOLEAN : ExecSpawn(x, ok)
  \/ \E x \in Execs, ch \in OutChars : SubStdout(x, ch)
  \/ \E x \in Execs, ch \in ErrChars : SubStderr(x, ch)
  \/ \E x \in Execs, code \in ExitCodes : SubClose(x, code)
  \/ \E x \in Execs : SubError(x)
  \/ \E c \in 1..MaxCalls : GraceTimer(c)
  \/ \E c \in 1..MaxCalls : MasterError(c)
  \/ \E p \in 1..MaxCalls : MasterClose(p)

\* the subordinate of call x has exited with a status
Exited(x) == xcalls[x].pc = "done" /\ xcalls[x].code # -1

\* one subordinate per call and never a second; success exactly on status 0;
\* a non-zero status fails with the command, the status and the stderr text
ExecShape(x) ==
  /\ xcalls[x].spawned <= 1
  /\ Exited(x) => xcalls[x].spawned = 1
  /\ Exited(x) => (xcalls[x].result.how = "resolved" <=> xcalls[x].code = 0)
  /\ Exited(x) /\ xcalls[x].code # 0 =>
       /\ xcalls[x].result.how = "rejected"
       /\ xcalls[x].result.command = xcalls[x].command
       /\ xcalls[x].result.code = xcalls[x].code
       /\ xcalls[x].result.stderr = xcalls[x].stderr

NextRestore ==
  \/ BootUp(TRUE)
  \/ RestoreSavedTaskSpace
  \/ RestoreProbeFailed
  \/ \E o \in IpcOps : HandleCreateTaskSpace(o)
  \/ \E o \in OpIds : createNewTaskSpace(o, TRUE)
  \/ \E o \in OpIds : ensureVSCodeServer(o)
  \/ \E o \in OpIds, ok \in BOOLEAN : startVSCodeServer(o, ok)
  \/ \E s \in ServerIds, p \in Ports : PortAnnounced(s, p)
  \/ \E o \in OpIds : waitForServer(o)
  \/ \E u \in Uuids : CloneDirRemoved(u)
  \/ Relaunch

\* C37: during restore a saved entry is dropped only when its clone
\* directory is missing on the remote host; a probe that fails for another
\* reason does not remove the entry from the roster that is then persisted.
C37_DropOnlyMissing ==
  [][ (ops[0].pc = "restore" /\ ops'[0] # ops[0] /\ run' = run) =>
        /\ LET datum == bootSaved.taskspaces[ops[0].i]
           IN datum.uuid \in cloneDirs => datum.uuid \in RosterUuids(taskspaces')
        /\ ops'[0].pc # "restore" =>
             \A i \in DOMAIN bootSaved.taskspaces :
               bootSaved.taskspaces[i].uuid \in cloneDirs =>
                 bootSaved.taskspaces[i].uuid \in RosterUuids(disk'.taskspaces)
    ]_vars

\* C34: a failure during initial boot invokes show_error and leaves the main
\* view on the error surface; a failed create or switch request never
\* invokes show_error and is answered with a failure result; a success
\* result is given only to a request that took effect.
C34_OnlyBootShowsError ==
  [][ /\ (ops[0].pc # "error" /\ ops'[0].pc = "error") => mainView'[1] = "error"
      /\ (mainView'[1] = "error" /\ mainView' # mainView) =>
           (ops[0].pc # "error" /\ ops'[0].pc = "error")
      /\ \A o \in IpcOps :
           (ops[o].pc # "idle" /\ ops'[o].pc = "idle" /\ run' = run) =>
             /\ ops'[o].kind \in {"replied-success", "replied-failure"}
             /\ ops'[o].kind = "replied-success" =>
                  IF ops[o].kind = "create"
                    THEN ops[o].u \in RosterUuids(taskspaces')
                    ELSE activeUuid' = ops[o].u /\ mainView' = VSCodeView(ops[o].u)
             /\ ops'[o].kind = "replied-failure" =>
                  /\ mainView' = mainView
                  /\ ops[o].kind = "create" => ops[o].u \notin RosterUuids(taskspaces')
    ]_vars

\* boot has finished well, a later request has failed and was told so, and
\* the main view is not the error surface
C34_Witness ==
  /\ ops[0].pc = "ready"
  /\ \E o \in IpcOps : ops[o].kind = "replied-failure"
  /\ mainView[1] # "error"

\* ---------------------------------------------------------------------------
\* ssh-manager.ts: createTunnel (lines 171-187) and the cleanup handlers of
\* the process (lines 226-228)
\* ---------------------------------------------------------------------------

MaxTunnels == 2

InitTVars ==
  /\ mtunnels = <<>>
  /\ mclean = "no"

NotChannel == UNCHANGED <<dVars, rVars, aVars, bVars, hVars, cVars, kVars, mVars, xVars, fVars, pVars, iVars, eVars, gVars, vVars>>

\* the process the masters entry of h names is running
RegisteredLive(h) == MastersHas(h) /\ mprocs[masters[h]].st = "alive"

\* createTunnel(host, localPort, remotePort): throw when masters has no entry
\* for the host, otherwise spawn the one `ssh -L` child.  proc and live record
\* what the entry named when the call was made.
CreateTunnel(h) ==
  /\ NotChannel
  /\ mclean # "exit"
  /\ Len(mtunnels) < MaxTunnels
  /\ mtunnels' = Append(mtunnels,
       [host |-> h,
        how |-> IF MastersHas(h) THEN "spawned" ELSE "precondition",
        proc |-> masters[h],
        live |-> RegisteredLive(h)])
  /\ UNCHANGED <<sshVars, mclean>>

\* process.on('SIGINT' | 'SIGTERM' | 'exit', () => sshManager.cleanup()).  A
\* signal with a listener does not end the process, so its timers and
\* handlers keep running; after 'exit' nothing of the controller runs.
ShutdownAll(how) ==
  /\ NotChannel
  /\ mclean = "no"
  /\ cleanup
  /\ mclean' = how
  /\ UNCHANGED mtunnels

\* ensureMaster of a controller that has not been told to end
ChannelEnsure(h, ok) == mclean = "no" /\ EnsureMaster(h, ok)

\* timers and child-process handlers of a controller that still runs
ChannelTimer(c) == mclean # "exit" /\ GraceTimer(c)

ChannelError(c) == mclean # "exit" /\ MasterError(c)

ChannelClose(p) == mclean # "exit" /\ MasterClose(p)

\* a control process that was sent the signal ends after the controller did
KilledMasterExits(p) ==
  /\ NotChannel
  /\ mclean = "exit"
  /\ p \in DOMAIN mprocs
  /\ mprocs[p].st = "alive" /\ mprocs[p].killed
  /\ mprocs' = [mprocs EXCEPT ![p].st = "exited"]
  /\ UNCHANGED <<masters, mcalls, tVars>>

NextChannel ==
  \/ \E h \in Hosts, ok \in BOOLEAN : ChannelEnsure(h, ok)
  \/ \E c \in 1..MaxCalls : ChannelTimer(c)
  \/ \E c \in 1..MaxCalls : ChannelError(c)
  \/ \E p \in 1..MaxCalls : ChannelClose(p)
  \/ \E p \in 1..MaxCalls : KilledMasterExits(p)
  \/ \E h \in Hosts : CreateTunnel(h)
  \/ \E how \in {"signal", "exit"} : ShutdownAll(how)

\* C31: forward_port for a host with no established control channel (never
\* ensured, or its control process has closed) fails with a precondition
\* error and spawns no tunnel process; it succeeds only when a channel for
\* that host is registered.
C31_TunnelNeedsChannel ==
  \A t \in DOMAIN mtunnels :
    /\ ~mtunnels[t].live => mtunnels[t].how = "precondition"
    /\ mtunnels[t].how = "spawned" => mtunnels[t].proc # 0

\* C32: after cleanup() has run, every control process spawned so far, one
\* inside its grace period included, has been terminated, no channel is
\* registered, and none becomes registered afterwards.
C32_ShutdownTerminatesAll ==
  mclean # "no" =>
    /\ \A p \in DOMAIN mprocs : mprocs[p].st = "alive" => mprocs[p].killed
    /\ \A h \in Hosts : ~MastersHas(h)


\* ---------------------------------------------------------------------------
\* The roster file: loadTaskSpaceData / saveTaskSpaceData (part_004 698-734)
\* as the file system sees them.  The text of the file is a sequence of
\* tokens: "[", one token per roster entry, "]".
\* ---------------------------------------------------------------------------

MaxCrashes == 2

FileUuids == {"u1", "u2"}
FileRosters == ({<<>>} \cup {<<u>> : u \in FileUuids}
                 \cup {<<u, v>> : u \in FileUuids, v \in FileUuids}) \ {<<u, u>> : u \in FileUuids}

\* JSON.stringify(data, null, 2) (line 729)
Stringify(roster) == <<"[">> \o roster \o <<"]">>

\* JSON.parse (line 703): throws unless the text is one complete document
ParseOk(text) ==
  /\ Len(text) >= 2
  /\ text[1] = "[" /\ text[Len(text)] = "]"
  /\ \A i \in 2..(Len(text) - 1) : text[i] \in FileUuids

Parsed(text) == SubSeq(text, 2, Len(text) - 1)

\* loadTaskSpaceData (lines 699-709): the roster of the file, or the empty
\* roster when the file is absent or reading or parsing throws
loadTaskSpaceData(exists, text) ==
  IF exists /\ ParseOk(text) THEN Parsed(text) ELSE <<>>

InitFVars ==
  rfile = [exists |-> FALSE, text |-> <<>>, mem |-> <<>>, pc |-> "run",
           prev |-> <<>>, next |-> <<>>, partial |-> FALSE, crashes |-> 0]

NotFile == UNCHANGED <<sshVars, dVars, rVars, aVars, bVars, hVars, cVars, kVars, mVars, xVars, tVars, pVars, iVars, eVars, gVars, vVars>>

\* the controller changes its roster in memory (create, restore drop)
RosterChange(roster) ==
  /\ NotFile
  /\ rfile.pc = "run"
  /\ roster # rfile.mem
  /\ rfile' = [rfile EXCEPT !.mem = roster]

\* saveTaskSpaceData up to the open of fs.writeFileSync (lines 713-729):
\* the file is opened for writing with truncation
SaveOpen ==
  /\ NotFile
  /\ rfile.pc = "run"
  /\ rfile' = [rfile EXCEPT !.exists = TRUE, !.text = <<>>, !.pc = "writing",
                            !.prev = loadTaskSpaceData(rfile.exists, rfile.text),
                            !.next = rfile.mem]

\* fs.writeFileSync writes the text; the call returns after the last byte
SaveWrite ==
  /\ NotFile
  /\ rfile.pc = "writing"
  /\ LET whole == Stringify(rfile.next)
         text == SubSeq(whole, 1, Len(rfile.text) + 1)
     IN rfile' = [rfile EXCEPT !.text = text,
                               !.pc = IF text = whole THEN "run" ELSE "writing"]

\* the controller process is killed or the machine stops
Crash ==
  /\ NotFile
  /\ rfile.pc \in {"run", "writing"}
  /\ rfile.crashes < MaxCrashes
  /\ rfile' = [rfile EXCEPT !.pc = "crashed", !.crashes = @ + 1]

\* the next controller boots and loads the roster (bootUp, line 306)
LoadAfterCrash ==
  /\ NotFile
  /\ rfile.pc = "crashed"
  /\ rfile' = [rfile EXCEPT !.pc = "run",
                            !.mem = loadTaskSpaceData(rfile.exists, rfile.text),
                            !.partial = rfile.exists /\ ~ParseOk(rfile.text)]

NextFile ==
  \/ \E roster \in FileRosters : RosterChange(roster)
  \/ SaveOpen
  \/ SaveWrite
  \/ Crash
  \/ LoadAfterCrash

\* C33: the roster file is rewritten atomically: at every instant, a crash
\* in the middle of a save included, the file holds the complete previous
\* roster or the complete new one, and a load never observes a partial one.
C33_AtomicRewrite ==
  /\ rfile.exists =>
       /\ ParseOk(rfile.text)
       /\ Parsed(rfile.text) \in {rfile.prev, rfile.next}
  /\ ~rfile.partial


\* ---------------------------------------------------------------------------
\* waitForServer (part_004 1100-1132): the probe loop in full
\* ---------------------------------------------------------------------------

maxRetries == 10
BackoffStart == 1000
BackoffCap == 5000

\* what one http.get attempt ends with: a status code, a request error, or
\* the 2000 ms timer of the attempt
ProbeOutcomes == {"200", "503", "error", "timeout"}

InitPVars ==
  probe = [pc |-> "idle", retries |-> 0, log |-> <<>>, delays |-> <<>>, result |-> "pending"]

NotProbe == UNCHANGED <<sshVars, dVars, rVars, aVars, bVars, hVars, cVars, kVars, mVars, xVars, tVars, fVars, iVars, eVars, gVars, vVars>>

RECURSIVE Pow2(_)
Pow2(n) == IF n = 0 THEN 1 ELSE 2 * Pow2(n - 1)

Min(a, b) == IF a <= b THEN a ELSE b

\* Math.min(1000 * Math.pow(2, retries), 5000) (line 1125)
C35_Mutant_Backoff(retries) == BackoffStart * Pow2(retries)

Backoff(retries) == Min(BackoffStart * Pow2(retries), BackoffCap)

\* waitForServer(url) is called: the first http.get is sent
ProbeCalled ==
  /\ NotProbe
  /\ probe.pc = "idle"
  /\ probe' = [probe EXCEPT !.pc = "request"]

\* one attempt ends (lines 1102-1128): return true on 200; otherwise start
\* the delay unless this was the last attempt, after which the loop ends
\* and the function throws
ProbeAnswered(outcome) ==
  /\ NotProbe
  /\ probe.pc = "request"
  /\ LET log == Append(probe.log, outcome) IN
     IF outcome = "200"
       THEN probe' = [probe EXCEPT !.pc = "done", !.log = log, !.result = "true"]
       ELSE IF probe.retries < maxRetries - 1
         THEN probe' = [probe EXCEPT !.pc = "delay", !.log = log,
                                     !.delays = Append(@, Backoff(probe.retries))]
         ELSE probe' = [probe EXCEPT !.pc = "done", !.log = log,
                                     !.retries = @ + 1, !.result = "throw"]

\* the delay's timer fires (line 1127): retries++ and the next http.get
ProbeDelayElapsed ==
  /\ NotProbe
  /\ probe.pc = "delay"
  /\ probe' = [probe EXCEPT !.pc = "request", !.retries = @ + 1]

NextProbe ==
  \/ ProbeCalled
  \/ \E outcome \in ProbeOutcomes : ProbeAnswered(outcome)
  \/ ProbeDelayElapsed

\* the unsuccessful attempts of the call so far
Unsuccessful == {i \in DOMAIN probe.log : probe.log[i] # "200"}

\* C35: waitForServer makes at most 10 attempts, succeeds at the first that
\* answers 200, fails after the 10th unsuccessful one, waits
\* min(1000 * 2^r, 5000) ms after unsuccessful attempt r = 0..8 and does not
\* wait after the last.
C35_TenAttemptsWithBackoff ==
  /\ Len(probe.log) <= 10
  /\ probe.result = "true" <=>
       (probe.log # <<>> /\ probe.log[Len(probe.log)] = "200")
  /\ \A i \in DOMAIN probe.log : probe.log[i] = "200" => i = Len(probe.log)
  /\ probe.result = "throw" <=> Cardinality(Unsuccessful) = 10
  /\ probe.result # "pending" <=> probe.pc = "done"
  /\ probe.delays =
       SubSeq(<<1000, 2000, 4000, 5000, 5000, 5000, 5000, 5000, 5000>>,
              1, Min(Cardinality(Unsuccessful), 9))

\* ten attempts were unsuccessful: nine delays, and the call has failed
C35_Witness ==
  /\ probe.result = "throw"
  /\ Len(probe.log) = 10
  /\ Len(probe.delays) = 9
  /\ probe.log[1] = "503" /\ probe.log[2] = "error" /\ probe.log[3] = "timeout"


\* ---------------------------------------------------------------------------
\* installVSCodeServer (part_004 1075-1092): the shell script on the remote
\* host.  archive is openvscode-server.tar.gz ("absent", "good", or "bad":
\* not an archive tar can read), unpacked the versioned directory tar
\* creates, dir the directory openvscode-server.
\* ---------------------------------------------------------------------------

MaxInstalls == 4

CurlOutcomes == {"ok", "bad", "fail"}

\* a host nothing was installed on
InitIVars ==
  inst = [archive |-> "absent", unpacked |-> FALSE, dir |-> FALSE, runs |-> 0,
          downloads |-> 0, unpacks |-> 0, exit |-> -1, failed |-> FALSE]

NotInstall == UNCHANGED <<sshVars, dVars, rVars, aVars, bVars, hVars, cVars, kVars, mVars, xVars, tVars, fVars, pVars, eVars, gVars, vVars>>

\* `if [ ! -f openvscode-server.tar.gz ]` (line 1080)
C36_Mutant_ArchiveMissing == TRUE

ArchiveMissing == inst.archive = "absent"

\* `if [ ! -d openvscode-server ]` (line 1083)
DirMissing == ~inst.dir

\* one run of the script (lines 1078-1088) through execSSHCommand (1090).
\* curl is what the download does when it runs; the script has no `set -e`,
\* so its status is that of the last command it ran: 0 when the second `if`
\* is skipped, else the status of chmod.
InstallVSCodeServer(curl) ==
  /\ NotInstall
  /\ inst.runs < MaxInstalls
  /\ LET download == ArchiveMissing
         archive == IF ~download THEN inst.archive
                    ELSE IF curl = "ok" THEN "good"
                    ELSE IF curl = "bad" THEN "bad" ELSE "absent"
         unpack == DirMissing
         tarOk == unpack /\ archive = "good"
         unpacked == inst.unpacked \/ tarOk
         mvOk == unpack /\ unpacked
         dir == inst.dir \/ mvOk
     IN inst' = [archive |-> archive,
                 unpacked |-> unpacked /\ ~mvOk,
                 dir |-> dir,
                 runs |-> inst.runs + 1,
                 downloads |-> inst.downloads + (IF download THEN 1 ELSE 0),
                 unpacks |-> inst.unpacks + (IF unpack THEN 1 ELSE 0),
                 exit |-> IF unpack /\ ~dir THEN 1 ELSE 0,
                 failed |-> \/ download /\ curl # "ok"
                            \/ unpack /\ ~(tarOk /\ mvOk)]

\* somebody removes the archive or the directory on the remote host
RemoteRemoves(what) ==
  /\ NotInstall
  /\ \/ what = "archive" /\ inst.archive # "absent"
     \/ what = "dir" /\ inst.dir
  /\ inst' = [inst EXCEPT !.archive = IF what = "archive" THEN "absent" ELSE @,
                          !.dir = IF what = "dir" THEN FALSE ELSE @,
                          !.exit = -1, !.failed = FALSE]

NextInstall ==
  \/ \E curl \in CurlOutcomes : InstallVSCodeServer(curl)
  \/ \E what \in {"archive", "dir"} : RemoteRemoves(what)

\* the last thing that happened was an install whose commands all succeeded
Installed == inst.exit = 0 /\ ~inst.failed

\* C36: the archive is downloaded only if the archive file is missing and
\* unpacked only if the install directory is missing, and an install run
\* right after a successful install changes nothing on the remote host.
C36_InstallIdempotent ==
  [][ inst'.runs = inst.runs + 1 =>
        /\ inst'.downloads > inst.downloads => inst.archive = "absent"
        /\ inst'.unpacks > inst.unpacks => ~inst.dir
        /\ Installed =>
             /\ inst'.archive = inst.archive /\ inst'.dir = inst.dir
             /\ inst'.unpacked = inst.unpacked
             /\ inst'.downloads = inst.downloads /\ inst'.unpacks = inst.unpacks
             /\ inst'.exit = 0
    ]_vars

\* a second run after an install that downloaded and unpacked: still one
\* download and one unpack
C36_Witness ==
  /\ inst.runs = 2
  /\ inst.downloads = 1 /\ inst.unpacks = 1
  /\ inst.archive = "good" /\ inst.dir
  /\ Installed


\* ---------------------------------------------------------------------------
\* The extension manifest of a taskspace (part_004): readProjectExtensions
\* (93-122), createNewTaskSpace (590-604), saveTaskSpaceData (712-734),
\* restoreSavedTaskSpaces (606-632), startVSCodeServer (737-765)
\* ---------------------------------------------------------------------------

MarketplaceIds == {"m1", "m2"}
LocalPackages == {"l1", "l2"}
Builtin == "theoldswitcheroo-extension-0.0.1.vsix"

\* the lists a vscode-extensions.json can hold
ListsOver(S) == {<<>>} \cup {<<x>> : x \in S} \cup {<<x, y>> : x \in S, y \in S}

\* readProjectExtensions: the built-in package is always first in local
Manifests ==
  {[marketplace |-> m, local |-> <<Builtin>> \o l] :
     m \in ListsOver(MarketplaceIds), l \in ListsOver(LocalPackages)}

\* a property that was never assigned
Undefined == [undefined |-> TRUE]

NoDatum == [uuid |-> "", name |-> "", port |-> 0, serverDataDir |-> ""]

InitEVars ==
  ext = [pc |-> "none", mem |-> Undefined, datum |-> NoDatum, first |-> <<>>, again |-> <<>>]

NotExt == UNCHANGED <<sshVars, dVars, rVars, aVars, bVars, hVars, cVars, kVars, mVars, xVars, tVars, fVars, pVars, iVars, gVars, vVars>>

\* the entry saveTaskSpaceData writes for a taskspace (lines 718-724; lastSeen,
\* the time of the save, is left out)
SavedDatum(extensions) ==
  [uuid |-> "u", name |-> "P0", port |-> 0, serverDataDir |-> "d"]

\* savedTaskSpaceDatum.extensions (line 621)
DatumExtensions(datum) ==
  IF "extensions" \in DOMAIN datum THEN datum.extensions ELSE Undefined

\* the default value of startVSCodeServer's parameter (line 737) and the
\* --install-extension commands of the server script (756-765), in order
InstallCommands(extensions) ==
  IF "undefined" \in DOMAIN extensions THEN <<>>
  ELSE extensions.marketplace \o extensions.local

\* createNewTaskSpace: the manifest is read, kept on the TaskSpace, and
\* notifyTaskSpacesChanged saves the roster
ExtCreate(manifest) ==
  /\ NotExt
  /\ ext.pc = "none"
  /\ ext' = [ext EXCEPT !.pc = "created", !.mem = manifest, !.datum = SavedDatum(manifest)]

\* ensureVSCodeServer: startVSCodeServer(..., taskspace.extensions)
ExtStart ==
  /\ NotExt
  /\ ext.pc \in {"created", "restored"}
  /\ IF ext.pc = "created"
       THEN ext' = [ext EXCEPT !.pc = "running", !.first = InstallCommands(ext.mem)]
       ELSE ext' = [ext EXCEPT !.pc = "restarted", !.again = InstallCommands(ext.mem)]

\* the controller quits; the roster file stays
ExtQuit ==
  /\ NotExt
  /\ ext.pc = "running"
  /\ ext' = [ext EXCEPT !.pc = "quit", !.mem = Undefined]

\* restoreSavedTaskSpaces: new TaskSpace(..., savedTaskSpaceDatum.extensions)
ExtRestore ==
  /\ NotExt
  /\ ext.pc = "quit"
  /\ ext' = [ext EXCEPT !.pc = "restored", !.mem = DatumExtensions(ext.datum)]

NextExt ==
  \/ \E manifest \in Manifests : ExtCreate(manifest)
  \/ ExtStart
  \/ ExtQuit
  \/ ExtRestore

\* C38: the extension manifest survives a save/restore cycle: a restored
\* taskspace whose server is restarted installs the same extensions as it
\* did when it was created.
C38_ManifestSurvivesRestore ==
  ext.pc = "restarted" => ext.again = ext.first


\* ---------------------------------------------------------------------------
\* The daemon table of TaskSpaceCommunicationManager (main.ts): the 'exit'
\* handler of a daemon child (1074-1077), stopDaemon (1088-1095), isRunning
\* (1358-1360).  dchild[d] is the local ssh child that runs daemon d, once
\* startDaemon has spawned it: "live", "killed" (stopDaemon sent SIGTERM),
\* "exited" (the 'exit' event is queued) or "reaped" (the handler has run).
\* ---------------------------------------------------------------------------

TableControllers == {1}

InitGVars == dchild = [d \in Daemons |-> "live"]

NotTable == UNCHANGED <<sshVars, rVars, aVars, bVars, cVars, kVars, mVars, xVars, tVars, fVars, pVars, iVars, eVars, vVars>>

\* isRunning(hostname)
isRunning(ctl) == daemonProcesses[ctl] # 0

\* stopDaemon(hostname): SIGTERM to the registered child, entry deleted
StopDaemon(ctl) ==
  /\ NotTable
  /\ isRunning(ctl)
  /\ dchild' = [dchild EXCEPT ![daemonProcesses[ctl]] = IF @ = "live" THEN "killed" ELSE @]
  /\ daemonProcesses' = [daemonProcesses EXCEPT ![ctl] = 0]
  /\ UNCHANGED <<dVars, dcalls, downer, sigterm>>

\* the ssh child of daemon d ends: it was sent SIGTERM, or the remote daemon
\* has exited and the session closes
ChildExits(d) ==
  /\ NotTable
  /\ dstate[d] # "none"
  /\ \/ dchild[d] = "killed"
     \/ dchild[d] = "live" /\ dstate[d] = "exited"
  /\ dchild' = [dchild EXCEPT ![d] = "exited"]
  /\ UNCHANGED <<dVars, hVars>>

\* the entry the 'exit' handler of child d deletes: the one of its host
ExitDeletes(d) == downer[d]

\* daemonProcess.on('exit') (lines 1074-1077): this.daemonProcesses.delete(hostname)
ChildExitHandled(d) ==
  /\ NotTable
  /\ dchild[d] = "exited"
  /\ dchild' = [dchild EXCEPT ![d] = "reaped"]
  /\ daemonProcesses' = [ctl \in Controllers |->
                           IF ctl = ExitDeletes(d) THEN 0 ELSE daemonProcesses[ctl]]
  /\ UNCHANGED <<dVars, dcalls, downer, sigterm>>

\* no startDaemon call is between two of its awaits
NoStartInFlight == \A k \in StartCalls : dcalls[k].pc \in {"idle", "returned", "started", "failed"}

\* one controller that starts, stops and starts its daemon, one call at a time
NextTable ==
  \/ \E k \in StartCalls, ctl \in TableControllers :
       NoStartInFlight /\ StartDaemonCalled(k, ctl) /\ UNCHANGED gVars
  \/ \E k \in StartCalls, ok \in BOOLEAN : FilesChecked(k, ok) /\ UNCHANGED gVars
  \/ \E k \in StartCalls : InstanceChecked(k) /\ UNCHANGED gVars
  \/ \E k \in StartCalls, takeOver \in BOOLEAN : DialogAnswered(k, takeOver) /\ UNCHANGED gVars
  \/ \E k \in StartCalls : KillSent(k) /\ UNCHANGED gVars
  \/ \E k \in StartCalls : WaitElapsed(k) /\ UNCHANGED gVars
  \/ \E d \in Daemons : DaemonBoots(d)
  \/ \E d \in Daemons : SigtermHandled(d)
  \/ \E ctl \in TableControllers : StopDaemon(ctl)
  \/ \E d \in Daemons : ChildExits(d)
  \/ \E d \in Daemons : ChildExitHandled(d)

\* the children of ctl that were started and neither stopped nor seen to exit
TrackedChildren(ctl) ==
  {d \in Daemons : downer[d] = ctl /\ dstate[d] # "none" /\ dchild[d] \in {"live", "exited"}}

\* C39: isRunning(host) is true if and only if a daemon child for the host
\* has been started and has not exited or been stopped; the late exit event
\* of a stopped daemon does not remove the entry of the daemon started after it.
C39_TableTracksLiveDaemon ==
  \A ctl \in TableControllers :
    /\ isRunning(ctl) => daemonProcesses[ctl] \in TrackedChildren(ctl)
    /\ (\E d \in TrackedChildren(ctl) : dchild[d] = "live") => isRunning(ctl)


\* ---------------------------------------------------------------------------
\* One taskspace's calls of startVSCodeServer (part_004 737-835) and the line
\* of ensureVSCodeServer that adopts the result (389-392).  Call k holds the
\* promise, the closure variable actualPort (0 for null), the 60 s timer and
\* the ssh process that runs the server; adopted, first and outs are history:
\* the assignments to actualPort, the first port a chunk announced and the
\* outcomes the promise took.
\* ---------------------------------------------------------------------------

MaxStarts == 2       \* calls of startVSCodeServer for the taskspace
MaxChunks == 2       \* stdout chunks of one server process
AnnouncedPorts == {1, 2}
NoMatch == 0         \* a chunk none of the four patterns matches
VsCalls == 1..MaxStarts

NoStart == [pc |-> "idle", actualPort |-> 0, timer |-> "none", proc |-> "none",
            chunks |-> 0, adopted |-> 0, first |-> 0, outs |-> <<>>]

InitVVars ==
  /\ vstart = [k \in VsCalls |-> NoStart]
  /\ tsport = 0

NotVs == UNCHANGED <<sshVars, rVars, aVars, bVars, hVars, dVars, cVars, kVars, mVars, xVars, tVars, fVars, pVars, iVars, eVars, gVars>>

\* resolve / reject of the promise: only a pending promise takes the outcome
SettleStart(call, outcome) ==
  IF call.pc = "pending"
  THEN [call EXCEPT !.pc = outcome[1], !.outs = Append(@, outcome)]
  ELSE call

\* ensureVSCodeServer reaches `await this.startVSCodeServer(...)`: the ssh
\* process is spawned, the handlers and the timer are installed.  The caller
\* awaits each call, so the call before has settled.
VsStart(k) ==
  /\ NotVs
  /\ vstart[k].pc = "idle"
  /\ \A j \in VsCalls : j < k => vstart[j].pc \in {"resolved", "rejected"}
  /\ vstart' = [vstart EXCEPT ![k] = [NoStart EXCEPT !.pc = "pending", !.timer = "armed", !.proc = "running"]]
  /\ UNCHANGED tsport

\* ssh.stdout.on('data'): chunk is the port the first matching pattern
\* captures, or NoMatch
VsStdout(k, chunk) ==
  /\ NotVs
  /\ vstart[k].proc = "running"
  /\ vstart[k].chunks < MaxChunks
  /\ LET call == [vstart[k] EXCEPT !.chunks = @ + 1,
                                   !.first = IF @ = 0 THEN chunk ELSE @]
         adopt == chunk # NoMatch /\ call.actualPort = 0
     IN IF adopt
        THEN /\ vstart' = [vstart EXCEPT ![k] =
                  SettleStart([call EXCEPT !.actualPort = chunk, !.adopted = @ + 1],
                         <<"resolved", chunk>>)]
             \* taskspace.port = serverInfo.port, when the await resumes
             /\ tsport' = IF call.pc = "pending" THEN chunk ELSE tsport
        ELSE /\ vstart' = [vstart EXCEPT ![k] = call]
             /\ UNCHANGED tsport

\* the setTimeout callback after 60 s (828-832)
VsTimeout(k) ==
  /\ NotVs
  /\ vstart[k].timer = "armed"
  /\ LET call == [vstart[k] EXCEPT !.timer = "fired"]
     IN vstart' = [vstart EXCEPT ![k] =
          IF call.actualPort = 0 THEN SettleStart(call, <<"rejected", "startup-timeout">>) ELSE call]
  /\ UNCHANGED tsport

\* ssh.on('error')
VsError(k) ==
  /\ NotVs
  /\ vstart[k].proc = "running"
  /\ vstart[k].chunks = 0
  /\ vstart' = [vstart EXCEPT ![k] = SettleStart([@ EXCEPT !.proc = "exited"], <<"rejected", "ssh">>)]
  /\ UNCHANGED tsport

\* ssh.on('close'): the server process has ended; the handler only logs
VsClose(k) ==
  /\ NotVs
  /\ vstart[k].proc = "running"
  /\ vstart' = [vstart EXCEPT ![k].proc = "exited"]
  /\ UNCHANGED tsport

NextVs ==
  \/ \E k \in VsCalls : VsStart(k)
  \/ \E k \in VsCalls, chunk \in AnnouncedPorts \cup {NoMatch} : VsStdout(k, chunk)
  \/ \E k \in VsCalls : VsTimeout(k)
  \/ \E k \in VsCalls : VsError(k)
  \/ \E k \in VsCalls : VsClose(k)

TimedOut(k) == vstart[k].outs = << <<"rejected", "startup-timeout">> >>

\* a port is adopted at most once, and it is the first one announced
AdoptsOnce ==
  \A k \in VsCalls :
    /\ vstart[k].adopted <= 1
    /\ vstart[k].actualPort # 0 <=> vstart[k].adopted = 1
    /\ vstart[k].first # NoMatch => vstart[k].actualPort = vstart[k].first

\* the promise takes one outcome, and has taken it when the timer has fired
SettlesOnce ==
  \A k \in VsCalls :
    /\ Len(vstart[k].outs) <= 1
    /\ vstart[k].timer = "fired" => Len(vstart[k].outs) = 1

\* an announcement after the timeout changes neither outcome nor taskspace.port
LateAnnouncementIgnored ==
  \A k \in VsCalls :
    (TimedOut(k) /\ vstart'[k].actualPort # vstart[k].actualPort) =>
       /\ TimedOut(k)'
       /\ tsport' = tsport

\* no process of a timed-out start runs next to the process of a later start
NoLeakedServer ==
  \A k, j \in VsCalls :
    (k < j /\ TimedOut(k) /\ vstart[j].proc = "running") => vstart[k].proc # "running"

\* C40: a server start adopts a port at most once (the first announced) and
\* settles exactly once; after a timeout a late announcement changes neither
\* the outcome nor the taskspace's port; and the process of a timed-out start
\* is not left running when a later start launches its own.
C40_StartSettlesOnce ==
  /\ []AdoptsOnce
  /\ []SettlesOnce
  /\ [][LateAnnouncementIgnored]_vars
  /\ []NoLeakedServer


Init == InitSSHVars /\ InitDVars /\ InitRVars /\ InitAVars /\ InitBVars /\ InitHVars /\ InitCVars /\ InitKVars /\ InitMVars /\ InitXVars /\ InitTVars /\ InitFVars /\ InitPVars /\ InitIVars /\ InitEVars /\ InitGVars /\ InitVVars

SpecSSH == Init /\ [][NextSSH]_vars

SpecRouter == Init /\ [][NextRouter]_vars

SpecDaemon == Init /\ [][NextDaemon]_vars

\* The daemon's event loop runs a handler for every event that has arrived.
SpecDaemonFair == Init /\ [][NextDaemon]_vars /\ WF_vars(DaemonLoop)

SpecApp == Init /\ [][NextApp]_vars

SpecAppCold == Init /\ [][NextAppCold]_vars

SpecBus == Init /\ [][NextBus]_vars

SpecStart == Init /\ [][NextStart]_vars

SpecRelay == Init /\ [][NextRelay]_vars

\* the daemon's event loop runs
SpecRelayFair == Init /\ [][NextRelay]_vars /\ WF_vars(RelayLoop)

SpecCli == Init /\ [][NextCli]_vars

SpecMcp == Init /\ [][NextMcp]_vars

SpecExec == Init /\ [][NextExec]_vars

SpecChannel == Init /\ [][NextChannel]_vars

SpecFile == Init /\ [][NextFile]_vars

SpecProbe == Init /\ [][NextProbe]_vars

SpecInstall == Init /\ [][NextInstall]_vars

SpecRestore == Init /\ [][NextRestore]_vars

SpecExt == Init /\ [][NextExt]_vars

SpecTable == Init /\ [][NextTable]_vars

SpecVs == Init /\ [][NextVs]_vars

====
